---- MODULE Spec2Model ----
(***************************************************************************)
(* The transaction pipeline of crewai-bank-account-agent:                  *)
(*   processors/transaction_processor.py  categorisation and enrichment    *)
(*   processors/cost_analyzer.py          cost insights                    *)
(*   utils/data_processor.py              summary statistics               *)
(* Python strings are TLA+ strings; amounts are integers (whole currency   *)
(* units, or cents where only sums matter); a pandas DataFrame is the      *)
(* sequence of its rows.                                                   *)
(***************************************************************************)
EXTENDS Integers, Sequences, FiniteSets, TLC

VARIABLES
  category_rules,  \* TransactionProcessor.category_rules
  row,             \* the row handed to _categorize_transaction
  category,        \* what _categorize_transaction returned for row
  transactions,    \* the batch handed to TransactionProcessor.process_transactions
  processed,       \* what process_transactions returned or raised
  batch,           \* the batch handed to CostAnalyzer.analyze_transactions
  analysis,        \* what analyze_transactions returned or raised
  transactions_df, \* the DataFrame handed to calculate_summary_stats
  stats,           \* what calculate_summary_stats returned or raised
  recategorized,   \* what a second _categorize_transaction returned for row
  categorized_df,  \* what categorize_transactions returned
  reprocessed,     \* what process_transactions returned for its own output
  raw_transactions, \* the raw records handed to BankingTools.process_transactions
  bank_type,       \* the provider tag handed to BankingTools.process_transactions
  crew,            \* BankingAnalysisCrew.run: its position, its locals, BankingTools.session
  auth,            \* a WiseAuth or RevolutAuth object and the call made on it
  now              \* datetime.now()

vars == <<category_rules, row, category, transactions, processed, batch,
          analysis, transactions_df, stats, recategorized, categorized_df,
          reprocessed, raw_transactions, bank_type, crew, auth, now>>

\* A call that has not been made yet.
Pending == [status |-> "pending"]

(***************************************************************************)
(* Python values                                                           *)
(***************************************************************************)

\* Python's None, where a string is expected.
None == "<None>"

\* str(v)
Str(v) == IF v = None THEN "None" ELSE v

\* One character of str.lower(), for the letters the model's inputs use.
LowerChar(c) ==
  CASE c = "A" -> "a" [] c = "B" -> "b" [] c = "C" -> "c" [] c = "D" -> "d"
    [] c = "E" -> "e" [] c = "F" -> "f" [] c = "G" -> "g" [] c = "H" -> "h"
    [] c = "I" -> "i" [] c = "J" -> "j" [] c = "K" -> "k" [] c = "L" -> "l"
    [] c = "M" -> "m" [] c = "N" -> "n" [] c = "O" -> "o" [] c = "P" -> "p"
    [] c = "Q" -> "q" [] c = "R" -> "r" [] c = "S" -> "s" [] c = "T" -> "t"
    [] c = "U" -> "u" [] c = "V" -> "v" [] c = "W" -> "w" [] c = "X" -> "x"
    [] c = "Y" -> "y" [] c = "Z" -> "z" [] OTHER -> c

RECURSIVE Lower(_)
\* str.lower()
Lower(s) ==
  IF Len(s) = 0 THEN ""
  ELSE LowerChar(SubSeq(s, 1, 1)) \o Lower(SubSeq(s, 2, Len(s)))

\* Python's `sub in s` for strings.
Contains(sub, s) ==
  \E i \in 1..(Len(s) - Len(sub) + 1) : SubSeq(s, i, i + Len(sub) - 1) = sub

\* The regular expression class \w, for the characters the model's inputs use.
IsWordChar(c) == c \notin {" ", "-", "&", ".", ",", "'", "/"}

\* re.match(r".*\b<word>\b.*", s): word occurs in s between two word
\* boundaries.  Every merchant pattern of the rule set has this shape; word
\* begins and ends with a word character, so a boundary is the end of s or
\* a non-word character next to it.
MatchesWordPattern(word, s) ==
  \E i \in 1..(Len(s) - Len(word) + 1) :
    /\ SubSeq(s, i, i + Len(word) - 1) = word
    /\ (i = 1 \/ ~IsWordChar(SubSeq(s, i - 1, i - 1)))
    /\ (i + Len(word) - 1 = Len(s) \/ ~IsWordChar(SubSeq(s, i + Len(word), i + Len(word))))

Abs(n) == IF n < 0 THEN -n ELSE n

Min(a, b) == IF a <= b THEN a ELSE b
MinOf(S) == CHOOSE x \in S : \A y \in S : x <= y
MaxOf(S) == CHOOSE x \in S : \A y \in S : y <= x

(***************************************************************************)
(* processors/transaction_processor.py                                     *)
(***************************************************************************)

\* An amount as a record field holds it: a number, None, or a string that
\* float() cannot parse.
Num(n) == [kind |-> "num", val |-> n]
NoAmount == [kind |-> "none", val |-> 0]
BadAmount == [kind |-> "str", val |-> 0]

\* An optional float of a CategoryRule: <<>> is None, <<n>> is n.
NoBound == <<>>
Bound(n) == <<n>>

\* CategoryRule.  merchant_patterns holds the word of each r".*\b<word>\b.*";
\* an absent list is the empty one (both are falsy).
CategoryRule(name, keywords, min_amount, max_amount, merchant_patterns) ==
  [name |-> name, keywords |-> keywords, min_amount |-> min_amount,
   max_amount |-> max_amount, merchant_patterns |-> merchant_patterns]

\* The rule list TransactionProcessor.__init__ builds.
DefaultRules == <<
  CategoryRule("Subscriptions",
    <<"netflix", "spotify", "amazon prime", "subscription", "monthly", "yearly">>,
    NoBound, NoBound, <<"subscription", "streaming">>),
  CategoryRule("Utilities",
    <<"electricity", "water", "gas", "internet", "phone", "utility", "broadband">>,
    NoBound, NoBound, <<"energy", "utilities">>),
  CategoryRule("Travel",
    <<"airline", "hotel", "train", "taxi", "uber", "flight", "booking">>,
    NoBound, NoBound, <<"airlines", "hotels">>),
  CategoryRule("Food & Dining",
    <<"restaurant", "cafe", "grocery", "food", "takeaway", "delivery">>,
    NoBound, NoBound, <<"restaurant", "cafe">>),
  CategoryRule("Entertainment",
    <<"cinema", "theater", "concert", "movie", "game", "entertainment">>,
    NoBound, NoBound, <<"cinema", "theater">>),
  CategoryRule("Business",
    <<"office", "software", "consulting", "business", "professional">>,
    NoBound, NoBound, <<"consulting", "services">>),
  CategoryRule("Shopping",
    <<"amazon", "shop", "store", "retail", "purchase">>,
    NoBound, NoBound, <<"store", "shop">>) >>

\* Python truthiness of a string-or-None field and of an amount field.
TruthyStr(v) == v # None /\ v # ""
TruthyAmount(a) == a.kind = "str" \/ a.kind = "dict" \/ (a.kind = "num" /\ a.val # 0)

\* any(keyword in description for keyword in rule.keywords)
KeywordHit(rule, description) ==
  \E k \in 1..Len(rule.keywords) : Contains(rule.keywords[k], description)

\* A merchant pattern that is not a regular expression: re.match raises
\* re.error when it compiles it ("(" is a group that is never closed).
BadPattern == "("

\* What _categorize_transaction yields in place of a category when re.match
\* raises.
ReError == "<re.error>"

\* rule.merchant_patterns and merchant and any(re.match(p, merchant) ...):
\* any() tries the patterns in order and stops at the first that matches.
MerchantHit(rule, merchant) ==
  /\ Len(rule.merchant_patterns) > 0
  /\ merchant # ""
  /\ \E k \in 1..Len(rule.merchant_patterns) :
       /\ rule.merchant_patterns[k] # BadPattern
       /\ MatchesWordPattern(rule.merchant_patterns[k], merchant)
       /\ \A j \in 1..(k - 1) : rule.merchant_patterns[j] # BadPattern

\* The same any() reaches a pattern that re.match cannot compile before a
\* pattern matches.
PatternRaises(rule, merchant) ==
  /\ Len(rule.merchant_patterns) > 0
  /\ merchant # ""
  /\ \E k \in 1..Len(rule.merchant_patterns) :
       /\ rule.merchant_patterns[k] = BadPattern
       /\ \A j \in 1..(k - 1) :
            \/ rule.merchant_patterns[j] = BadPattern
            \/ ~MatchesWordPattern(rule.merchant_patterns[j], merchant)

\* both bounds set and rule.min_amount <= amount <= rule.max_amount
AmountHit(rule, amount) ==
  /\ rule.min_amount # NoBound
  /\ rule.max_amount # NoBound
  /\ rule.min_amount[1] <= amount
  /\ amount <= rule.max_amount[1]

\* A variant that tries the keywords of every rule before any merchant
\* pattern, and every pattern before any amount range.
categorize_by_kind(rules, description, merchant, amount) ==
  IF \E i \in 1..Len(rules) : KeywordHit(rules[i], description)
  THEN rules[CHOOSE i \in 1..Len(rules) :
               /\ KeywordHit(rules[i], description)
               /\ \A j \in 1..(i - 1) : ~KeywordHit(rules[j], description)].name
  ELSE IF \E i \in 1..Len(rules) : MerchantHit(rules[i], merchant)
  THEN rules[CHOOSE i \in 1..Len(rules) :
               /\ MerchantHit(rules[i], merchant)
               /\ \A j \in 1..(i - 1) : ~MerchantHit(rules[j], merchant)].name
  ELSE IF \E i \in 1..Len(rules) : AmountHit(rules[i], amount)
  THEN rules[CHOOSE i \in 1..Len(rules) :
               /\ AmountHit(rules[i], amount)
               /\ \A j \in 1..(i - 1) : ~AmountHit(rules[j], amount)].name
  ELSE "Other"

RECURSIVE RuleLoop(_, _, _, _, _)
\* The loop `for rule in self.category_rules`, from rule i on: the three
\* checks of a rule in the code's order, then the next rule.
RuleLoop(rules, i, description, merchant, amount) ==
  IF i > Len(rules) THEN "Other"
  ELSE IF KeywordHit(rules[i], description) THEN rules[i].name
  ELSE IF PatternRaises(rules[i], merchant) THEN ReError
  ELSE IF MerchantHit(rules[i], merchant) THEN rules[i].name
  ELSE IF AmountHit(rules[i], amount) THEN rules[i].name
  ELSE RuleLoop(rules, i + 1, description, merchant, amount)

\* A variant that falls off the end of the loop without the default.
categorize_without_default(rules, description, merchant, amount) ==
  LET found == RuleLoop(rules, 1, description, merchant, amount)
  IN  IF found = "Other" THEN None ELSE found

\* The loop of _categorize_transaction over the whole rule list.
categorize_loop(rules, description, merchant, amount) ==
  RuleLoop(rules, 1, description, merchant, amount)

\* TransactionProcessor._categorize_transaction(row): the category, or the
\* exception float() raises on an unparseable amount (ValueError) or on a
\* dict (TypeError), or the one re.match raises on a malformed pattern.
categorize_transaction(rules, r) ==
  LET description == Lower(Str(r.description))
      merchant == IF TruthyStr(r.merchant) THEN Lower(Str(r.merchant)) ELSE ""
  IN  IF r.amount.kind = "str" THEN [status |-> "ValueError", value |-> ""]
      ELSE IF r.amount.kind = "dict" THEN [status |-> "TypeError", value |-> ""]
      ELSE LET amount == IF TruthyAmount(r.amount) THEN r.amount.val ELSE 0
               found == categorize_loop(rules, description, merchant, amount)
           IN  IF found = ReError
               THEN [status |-> "re.error", value |-> ""]
               ELSE [status |-> "ok", value |-> found]

\* A date as a record field holds it: a calendar date, None, or a string
\* that pandas.to_datetime cannot parse.
Date(y, m, d) == [kind |-> "date", year |-> y, month |-> m, day |-> d]
NoDate == [kind |-> "none", year |-> 0, month |-> 0, day |-> 0]
BadDate == [kind |-> "str", year |-> 0, month |-> 0, day |-> 0]

\* float("nan") where an integer is expected, and NaN where a string is.
NaN == -1
NaNStr == "<NaN>"

\* Days from 1970-01-01 to a calendar date (proleptic Gregorian calendar).
DaysFromCivil(y, m, d) ==
  LET yy == IF m <= 2 THEN y - 1 ELSE y
      era == yy \div 400
      yoe == yy - era * 400
      mp == IF m > 2 THEN m - 3 ELSE m + 9
      doy == (153 * mp + 2) \div 5 + d - 1
      doe == yoe * 365 + yoe \div 4 - yoe \div 100 + doy
  IN  era * 146097 + doe - 719468

DayNames == <<"Sunday", "Monday", "Tuesday", "Wednesday", "Thursday", "Friday", "Saturday">>

\* Series.dt.day_name() of one timestamp; NaN for NaT.
DayName(date) ==
  IF date.kind # "date" THEN NaNStr
  ELSE DayNames[((DaysFromCivil(date.year, date.month, date.day) + 4) % 7) + 1]

\* An optional boolean column of a row: <<>> when the row has no such key.
Absent == <<>>
Present(b) == <<b>>

\* TransactionProcessor._generate_tags(row)
generate_tags(r) ==
  LET amount == IF TruthyAmount(r.amount) THEN r.amount.val ELSE 0
      by_amount == IF amount > 1000 THEN <<"high_value">>
                   ELSE IF amount < 10 THEN <<"low_value">>
                   ELSE <<>>
      by_frequency == IF r.is_recurring = Present(TRUE) THEN <<"recurring">> ELSE <<>>
      by_category == IF r.category # "Other" THEN <<Lower(r.category)>> ELSE <<>>
  IN  by_amount \o by_frequency \o by_category

\* The indicator list of _detect_recurring_pattern.
recurring_indicators ==
  <<"subscription", "monthly", "recurring", "payment", "bill", "auto-pay">>

\* _detect_recurring_pattern with an indicator list of "subscription" alone.
detect_subscription_only(r) ==
  Contains("subscription", Lower(Str(r.description)))

\* TransactionProcessor._detect_recurring_pattern(row)
detect_recurring_pattern(r) ==
  LET description == Lower(Str(r.description))
  IN  \E k \in 1..Len(recurring_indicators) :
        Contains(recurring_indicators[k], description)

\* The record process_transactions returns for the input record t, once every
\* column has been added: the tags are computed from the row as it is before
\* the is_recurring column is assigned; the columns of t that are not
\* assigned stay as they are.
EnrichedRecord(rules, t) ==
  LET cat == categorize_transaction(rules, t).value
      tagged == [description |-> t.description, merchant |-> t.merchant,
                 amount |-> t.amount, date |-> t.date, category |-> cat,
                 is_recurring |-> IF "is_recurring" \in DOMAIN t
                                  THEN t.is_recurring ELSE Absent]
  IN  [description |-> t.description,
       merchant |-> t.merchant,
       amount |-> t.amount,
       date |-> t.date,
       category |-> cat,
       month |-> IF t.date.kind = "date" THEN t.date.month ELSE NaN,
       year |-> IF t.date.kind = "date" THEN t.date.year ELSE NaN,
       day_of_week |-> DayName(t.date),
       tags |-> generate_tags(tagged),
       is_recurring |-> Present(detect_recurring_pattern(t))]
      @@ t

\* The columns process_transactions adds, once the dates and amounts of the
\* whole batch have been read without an exception.
enrich_all(rules, txs) ==
  [status |-> "ok",
   records |-> [i \in 1..Len(txs) |-> EnrichedRecord(rules, txs[i])]]

\* TransactionProcessor.process_transactions(transactions): the enriched
\* records, or the exception that ends the call.  An empty list makes a
\* DataFrame without a "date" column; pandas.to_datetime raises on the first
\* unparseable date of the column, and df.apply stops at the first row whose
\* categorisation raises.
process_transactions(rules, txs) ==
  IF Len(txs) = 0 THEN [status |-> "KeyError", records |-> <<>>]
  ELSE IF \E i \in 1..Len(txs) : txs[i].date.kind = "str"
  THEN [status |-> "ValueError", records |-> <<>>]
  ELSE IF \E i \in 1..Len(txs) : categorize_transaction(rules, txs[i]).status # "ok"
  THEN LET i == MinOf({ k \in 1..Len(txs) :
                          categorize_transaction(rules, txs[k]).status # "ok" })
       IN  [status |-> categorize_transaction(rules, txs[i]).status, records |-> <<>>]
  ELSE enrich_all(rules, txs)

(***************************************************************************)
(* processors/cost_analyzer.py                                             *)
(* df[mask] is SelectSeq(rows, mask).                                     *)
(* A float that is a quotient is the exact fraction [num, den]; a sum of   *)
(* amounts n is [num |-> n, den |-> 1].                                    *)
(***************************************************************************)

Whole(n) == [num |-> n, den |-> 1]

\* CostInsight
CostInsight(type, description, impact, recommendation, priority) ==
  [type |-> type, description |-> description, impact |-> impact,
   recommendation |-> recommendation, priority |-> priority]

RECURSIVE SumSeq(_)
\* Series.sum() of a column of numbers.
SumSeq(xs) == IF Len(xs) = 0 THEN 0 ELSE xs[1] + SumSeq(Tail(xs))

\* df["amount"] as a sequence of numbers.
Amounts(rows) == [i \in 1..Len(rows) |-> rows[i].amount.val]

\* groupby(["description", "amount"]).agg({"date": "count"}): one record per
\* (description, amount) pair of the rows, with the number of its rows that
\* have a date.
GroupCounts(rows) ==
  { [description |-> rows[i].description,
     amount |-> rows[i].amount.val,
     date |-> Cardinality({ j \in 1..Len(rows) :
                 /\ rows[j].description = rows[i].description
                 /\ rows[j].amount.val = rows[i].amount.val
                 /\ rows[j].date.kind = "date" })] : i \in 1..Len(rows) }

\* A variant that groups the subscriptions by description alone.
duplicate_subscriptions_by_description(subscriptions) ==
  { g \in { [description |-> subscriptions[i].description,
             amount |-> subscriptions[i].amount.val,
             date |-> Cardinality({ j \in 1..Len(subscriptions) :
                         /\ subscriptions[j].description = subscriptions[i].description
                         /\ subscriptions[j].date.kind = "date" })]
            : i \in 1..Len(subscriptions) } : g.date > 1 }

\* CostAnalyzer._find_duplicate_subscriptions(subscriptions): the groups
\* with more than one row.
find_duplicate_subscriptions(subscriptions) ==
  { g \in GroupCounts(subscriptions) : g.date > 1 }

RECURSIVE SumGroupAmounts(_)
\* sum(d["amount"] for d in duplicate_subs): the amount of each group, once.
SumGroupAmounts(groups) ==
  IF groups = {} THEN 0
  ELSE LET g == CHOOSE x \in groups : TRUE
       IN  g.amount + SumGroupAmounts(groups \ {g})

\* The first index of a least element of a non-empty sequence of numbers.
ArgMin(xs) ==
  CHOOSE i \in 1..Len(xs) :
    /\ \A j \in 1..Len(xs) : xs[i] <= xs[j]
    /\ \A j \in 1..(i - 1) : xs[j] > xs[i]

\* The sequence without its element i.
RemoveAt(xs, i) == SubSeq(xs, 1, i - 1) \o SubSeq(xs, i + 1, Len(xs))

RECURSIVE NSmallest(_, _)
\* Series.nsmallest(n) with keep="first": the n least numbers, ascending.
NSmallest(n, xs) ==
  IF n = 0 \/ Len(xs) = 0 THEN <<>>
  ELSE LET i == ArgMin(xs)
       IN  <<xs[i]>> \o NSmallest(n - 1, RemoveAt(xs, i))

\* How many rows nsmallest keeps for the high-fee insight.
HighFeeCount == 10

IsExpense(r) == r.amount.val < 0
IsSubscription(r) == r.category = "Subscriptions"

\* A variant that takes the largest amounts by magnitude of the whole batch.
high_fee_amounts_by_magnitude(rows) ==
  LET mags == [i \in 1..Len(rows) |-> -Abs(rows[i].amount.val)]
  IN  NSmallest(HighFeeCount, mags)

\* df[df["amount"] < 0].nsmallest(10, "amount")["amount"]
high_fee_amounts(rows) ==
  NSmallest(HighFeeCount, Amounts(SelectSeq(rows, IsExpense)))

\* The calendar month of a date, as a number that orders months.
Period(date) == date.year * 12 + date.month

\* groupby(df["date"].dt.to_period("M"))["amount"].sum(): the months of the
\* rows that have a date, and the sum of a month.
Periods(rows) == { Period(rows[i].date) : i \in { j \in 1..Len(rows) : rows[j].date.kind = "date" } }

RECURSIVE PeriodSum(_, _)
PeriodSum(rows, p) ==
  IF Len(rows) = 0 THEN 0
  ELSE (IF rows[1].date.kind = "date" /\ Period(rows[1].date) = p
        THEN rows[1].amount.val ELSE 0) + PeriodSum(Tail(rows), p)

\* CostAnalyzer._analyze_spending_trend(df): (last - first) / first of the
\* monthly sums, 0 with fewer than two months or a first month of 0.
analyze_spending_trend(rows) ==
  IF Cardinality(Periods(rows)) < 2 THEN Whole(0)
  ELSE LET first_month == PeriodSum(rows, MinOf(Periods(rows)))
           last_month == PeriodSum(rows, MaxOf(Periods(rows)))
       IN  IF first_month # 0
           THEN [num |-> last_month - first_month, den |-> first_month]
           ELSE Whole(0)

\* q > 0.1 for a fraction q.
ExceedsTenPercent(q) ==
  IF q.den > 0 THEN 10 * q.num > q.den ELSE 10 * q.num < q.den

\* CostAnalyzer._find_savings_opportunities(df)
find_savings_opportunities(rows) ==
  LET subscriptions == SelectSeq(rows, IsSubscription)
      duplicate_subs == find_duplicate_subscriptions(subscriptions)
      high_fees == high_fee_amounts(rows)
      monthly_increase == analyze_spending_trend(rows)
  IN  (IF Len(subscriptions) > 0 /\ duplicate_subs # {}
       THEN <<CostInsight("duplicate_subscriptions",
                          "Found potential duplicate subscriptions",
                          Whole(SumGroupAmounts(duplicate_subs)),
                          "Review and consolidate duplicate subscriptions",
                          "high")>>
       ELSE <<>>)
      \o
      (IF Len(high_fees) > 0
       THEN <<CostInsight("high_fees",
                          "Identified transactions with high fees",
                          Whole(Abs(SumSeq(high_fees))),
                          "Consider alternative payment methods or providers",
                          "medium")>>
       ELSE <<>>)
      \o
      (IF ExceedsTenPercent(monthly_increase)
       THEN <<CostInsight("spending_increase",
                          "Monthly spending increased",
                          monthly_increase,
                          "Review recent spending patterns for unnecessary increases",
                          "medium")>>
       ELSE <<>>)

\* CostAnalyzer._analyze_categories(df): sum and count of each category.
analyze_categories(rows) ==
  LET cats == { rows[i].category : i \in 1..Len(rows) }
  IN  [c \in cats |->
        LET of_c(r) == r.category = c
        IN  [sum |-> SumSeq(Amounts(SelectSeq(rows, of_c))),
             count |-> Len(SelectSeq(rows, of_c))]]

\* A variant that looks for the repeated groups among the subscriptions only.
recurring_subscriptions_only(rows) ==
  { [description |-> g.description, amount |-> g.amount, count |-> g.date,
     monthly_cost |-> g.amount] :
      g \in { x \in GroupCounts(SelectSeq(rows, IsSubscription)) : x.date > 1 } }

\* CostAnalyzer._analyze_recurring_costs(df): the (description, amount)
\* groups of the whole batch with more than one dated row.
analyze_recurring_costs(rows) ==
  { [description |-> g.description, amount |-> g.amount, count |-> g.date,
     monthly_cost |-> g.amount] : g \in { x \in GroupCounts(rows) : x.date > 1 } }

\* CostAnalyzer.analyze_transactions(transactions): the analysis, or the
\* exception that ends the call.  An empty list makes a DataFrame without a
\* "date" column, so df["date"] raises KeyError; pandas.to_datetime raises on
\* an unparseable date.  The "insights" list is created empty and returned
\* as it is; the CostInsight records are in "savings_opportunities".
analyze_transactions(rows) ==
  IF Len(rows) = 0
  THEN [status |-> "KeyError", summary |-> <<>>, recurring_costs |-> {},
        savings_opportunities |-> <<>>, insights |-> <<>>]
  ELSE IF \E i \in 1..Len(rows) : rows[i].date.kind = "str"
  THEN [status |-> "ValueError", summary |-> <<>>, recurring_costs |-> {},
        savings_opportunities |-> <<>>, insights |-> <<>>]
  ELSE [status |-> "ok",
        summary |-> analyze_categories(rows),
        recurring_costs |-> analyze_recurring_costs(rows),
        savings_opportunities |-> find_savings_opportunities(rows),
        insights |-> <<>>]

(***************************************************************************)
(* utils/data_processor.py                                                 *)
(* A DataFrame is [columns, rows]: the optional columns it has, and its    *)
(* rows with the fields amount, date and custom_category.                  *)
(***************************************************************************)

\* The custom categories of get_custom_category, in the order groupby sorts
\* its keys (alphabetical).
CategoryKeys ==
  <<"education", "entertainment", "food", "health", "housing", "income",
    "other", "shopping", "transfer", "transport", "utilities">>

\* How many categories a top list keeps.
TopN == 5

IsIncome(r) == r.amount.val >= 0
IsOutflow(r) == r.amount.val < 0

\* A variant that leaves the sum of the expenses signed.
signed_expenses(rows) == SumSeq(Amounts(SelectSeq(rows, IsOutflow)))

\* income_df["amount"].sum()
total_income_of(rows) == SumSeq(Amounts(SelectSeq(rows, IsIncome)))

\* abs(expense_df["amount"].sum())
total_expenses_of(rows) == Abs(SumSeq(Amounts(SelectSeq(rows, IsOutflow))))

\* (df["date"].max() - df["date"].min()).days
DateRange(rows) ==
  LET days == { DaysFromCivil(rows[i].date.year, rows[i].date.month, rows[i].date.day) :
                  i \in 1..Len(rows) }
  IN  MaxOf(days) - MinOf(days)

\* groupby("custom_category")["amount"].sum(): one [category, amount] per
\* category of the rows, in key order.
RECURSIVE CategorySums(_, _)
CategorySums(rows, k) ==
  IF k > Len(CategoryKeys) THEN <<>>
  ELSE LET of_k(r) == r.custom_category = CategoryKeys[k]
           mine == SelectSeq(rows, of_k)
       IN  (IF Len(mine) > 0
            THEN <<[category |-> CategoryKeys[k], amount |-> SumSeq(Amounts(mine))]>>
            ELSE <<>>) \o CategorySums(rows, k + 1)

\* The first index of a greatest amount of a non-empty list of sums.
ArgMax(sums) ==
  CHOOSE i \in 1..Len(sums) :
    /\ \A j \in 1..Len(sums) : sums[j].amount <= sums[i].amount
    /\ \A j \in 1..(i - 1) : sums[j].amount < sums[i].amount

RECURSIVE SortDescending(_)
\* sort_values(ascending=False), equal sums staying in key order.
SortDescending(sums) ==
  IF Len(sums) = 0 THEN <<>>
  ELSE LET i == ArgMax(sums)
       IN  <<sums[i]>> \o SortDescending(RemoveAt(sums, i))

\* head(n)
Head_n(xs, n) == SubSeq(xs, 1, Min(n, Len(xs)))

\* expense_df.groupby(...).sum().abs().sort_values(ascending=False).head(5)
top_expense_categories_of(df) ==
  IF "custom_category" \in df.columns /\ Len(SelectSeq(df.rows, IsOutflow)) > 0
  THEN LET sums == CategorySums(SelectSeq(df.rows, IsOutflow), 1)
           abs_sums == [i \in 1..Len(sums) |->
                          [category |-> sums[i].category, amount |-> Abs(sums[i].amount)]]
       IN  Head_n(SortDescending(abs_sums), TopN)
  ELSE <<>>

\* income_df.groupby(...).sum().sort_values(ascending=False).head(5)
top_income_categories_of(df) ==
  IF "custom_category" \in df.columns /\ Len(SelectSeq(df.rows, IsIncome)) > 0
  THEN Head_n(SortDescending(CategorySums(SelectSeq(df.rows, IsIncome), 1)), TopN)
  ELSE <<>>

RECURSIVE monthly_with_signed_expenses(_, _)
\* A variant that leaves a month's expenses signed.
monthly_with_signed_expenses(rows, P) ==
  IF P = {} THEN <<>>
  ELSE LET p == MinOf(P)
           in_p(r) == Period(r.date) = p
           month_df == SelectSeq(rows, in_p)
       IN  <<[month |-> p, income |-> total_income_of(month_df),
              expenses |-> signed_expenses(month_df),
              net |-> total_income_of(month_df) - signed_expenses(month_df)]>>
           \o monthly_with_signed_expenses(rows, P \ {p})

RECURSIVE monthly_by_month_of_year(_, _)
\* A variant that groups by the month of the year ("%m"), whatever the year.
monthly_by_month_of_year(rows, P) ==
  IF P = {} THEN <<>>
  ELSE LET p == CHOOSE x \in P : \A y \in P : x % 12 <= y % 12
           in_p(r) == Period(r.date) % 12 = p % 12
           month_df == SelectSeq(rows, in_p)
       IN  <<[month |-> p, income |-> total_income_of(month_df),
              expenses |-> total_expenses_of(month_df),
              net |-> total_income_of(month_df) - total_expenses_of(month_df)]>>
           \o monthly_by_month_of_year(rows, { x \in P : x % 12 # p % 12 })

RECURSIVE MonthlyFrom(_, _)
\* The loop over df.groupby("month"), from the months in P on, in the order
\* of the "%Y-%m" keys.
MonthlyFrom(rows, P) ==
  IF P = {} THEN <<>>
  ELSE LET p == MinOf(P)
           in_p(r) == Period(r.date) = p
           month_df == SelectSeq(rows, in_p)
           month_income == total_income_of(month_df)
           month_expenses == total_expenses_of(month_df)
       IN  <<[month |-> p, income |-> month_income, expenses |-> month_expenses,
              net |-> month_income - month_expenses]>>
           \o MonthlyFrom(rows, P \ {p})

\* What calculate_summary_stats returns for an empty DataFrame.
empty_summary ==
  [status |-> "ok", total_income |-> 0, total_expenses |-> 0, net_cashflow |-> 0,
   avg_daily_expense |-> Whole(0), top_expense_categories |-> <<>>,
   top_income_categories |-> <<>>, monthly_summary |-> <<>>]

\* calculate_summary_stats past its check for an empty DataFrame.
summary_of(df) ==
  LET total_income == total_income_of(df.rows)
      total_expenses == total_expenses_of(df.rows)
  IN  [status |-> "ok",
       total_income |-> total_income,
       total_expenses |-> total_expenses,
       net_cashflow |-> total_income - total_expenses,
       avg_daily_expense |->
         IF "date" \in df.columns
         THEN [num |-> total_expenses, den |-> IF DateRange(df.rows) > 1 THEN DateRange(df.rows) ELSE 1]
         ELSE Whole(0),
       top_expense_categories |-> top_expense_categories_of(df),
       top_income_categories |-> top_income_categories_of(df),
       monthly_summary |->
         IF "date" \in df.columns THEN MonthlyFrom(df.rows, Periods(df.rows)) ELSE <<>>]

\* A variant without the early return: an empty DataFrame has no "amount"
\* column to read.
summary_without_empty_check(df) ==
  IF Len(df.rows) = 0
  THEN [empty_summary EXCEPT !.status = "KeyError"]
  ELSE summary_of(df)

\* calculate_summary_stats(transactions_df)
calculate_summary_stats(df) ==
  IF Len(df.rows) = 0 THEN empty_summary ELSE summary_of(df)

\* The keyword table of get_custom_category, in the order of the dict.
CustomCategories == <<
  [name |-> "food",
   keywords |-> <<"restaurant", "cafe", "coffee", "food", "grocery", "supermarket">>],
  [name |-> "transport",
   keywords |-> <<"uber", "lyft", "taxi", "transport", "train", "bus", "subway", "metro">>],
  [name |-> "shopping",
   keywords |-> <<"amazon", "shop", "store", "retail", "clothing">>],
  [name |-> "entertainment",
   keywords |-> <<"movie", "cinema", "theater", "netflix", "spotify", "subscription">>],
  [name |-> "utilities",
   keywords |-> <<"electric", "water", "gas", "internet", "phone", "utility">>],
  [name |-> "housing",
   keywords |-> <<"rent", "mortgage", "apartment", "house">>],
  [name |-> "health",
   keywords |-> <<"doctor", "hospital", "medical", "pharmacy", "health">>],
  [name |-> "education",
   keywords |-> <<"school", "university", "college", "course", "education">>],
  [name |-> "income",
   keywords |-> <<"salary", "income", "deposit">>],
  [name |-> "transfer",
   keywords |-> <<"transfer", "sent", "received">>] >>

\* row.get(key, default): the row's value, or the default when the DataFrame
\* has no such column.
RowGet(r, columns, key, default) == IF key \in columns THEN r[key] ELSE default

RECURSIVE CategoryLoop(_, _)
\* The loop `for category, keywords in categories.items()`, from entry i on.
\* It yields None when it ends without a return.
CategoryLoop(i, desc) ==
  IF i > Len(CustomCategories) THEN None
  ELSE IF \E k \in 1..Len(CustomCategories[i].keywords) :
            Contains(CustomCategories[i].keywords[k], desc)
       THEN CustomCategories[i].name
       ELSE CategoryLoop(i + 1, desc)

\* A variant that prefers the provider's category to the keyword table.
custom_category_provider_first(r, columns) ==
  IF TruthyStr(RowGet(r, columns, "category", None))
  THEN r.category
  ELSE LET found == CategoryLoop(1, Lower(Str(RowGet(r, columns, "description", ""))))
       IN  IF found # None THEN found ELSE "other"

\* get_custom_category(row)
get_custom_category(r, columns) ==
  LET desc == Lower(Str(RowGet(r, columns, "description", "")))
      found == CategoryLoop(1, desc)
  IN  IF found # None THEN found
      ELSE IF TruthyStr(RowGet(r, columns, "category", None)) THEN r.category
      ELSE "other"

\* categorize_transactions(df): df itself when it is empty, else a copy with
\* the columns custom_category and direction added.
categorize_transactions(df) ==
  IF Len(df.rows) = 0 THEN df
  ELSE [columns |-> df.columns \cup {"custom_category", "direction"},
        rows |-> [i \in 1..Len(df.rows) |->
                    [description |-> df.rows[i].description,
                     category |-> df.rows[i].category,
                     amount |-> df.rows[i].amount,
                     date |-> df.rows[i].date,
                     custom_category |-> get_custom_category(df.rows[i], df.columns),
                     direction |-> IF df.rows[i].amount.val >= 0
                                   THEN "income" ELSE "expense"]]]

(***************************************************************************)
(* _categorize_transaction called on one row, with any rule list.          *)
(***************************************************************************)

\* The longest substituted rule list.
MaxRules == 2

\* All sequences over S of length at most n.
SeqsUpTo(S, n) == UNION {[1..k -> S] : k \in 0..n}

\* Rules a caller may put in category_rules: one per kind of condition, one
\* with only a lower bound, one that mixes keyword and amount range, one
\* whose second merchant pattern is malformed.
RulePool == {
  CategoryRule("Fuel", <<"gas">>, NoBound, NoBound, <<>>),
  CategoryRule("Shops", <<>>, NoBound, NoBound, <<"store">>),
  CategoryRule("Mid", <<>>, Bound(10), Bound(100), <<>>),
  CategoryRule("Floor", <<>>, Bound(10), NoBound, <<>>),
  CategoryRule("Big", <<"shop">>, Bound(1000), Bound(5000), <<>>),
  CategoryRule("Broken", <<"netflix">>, NoBound, NoBound, <<"store", BadPattern>>) }

RuleLists == SeqsUpTo(RulePool, MaxRules) \cup {DefaultRules}

RowDescriptions == {"Gas bill", "SHOP online", "Netflix", None}
RowMerchants == {None, "", "Corner Store", "Storefront"}
RowAmounts == {Num(-50), Num(0), Num(5), Num(50), Num(2000), NoAmount, BadAmount}

Rows == [description : RowDescriptions, merchant : RowMerchants, amount : RowAmounts]

\* pandas.DataFrame()
(***************************************************************************)
(* The object the caller passed to a stage, as it is when the stage has    *)
(* returned.  Every stage works on a structure of its own: a DataFrame     *)
(* built from the list of records, or a copy of the DataFrame.             *)
(***************************************************************************)

\* TransactionProcessor.process_transactions: df = pd.DataFrame(transactions),
\* and every column is assigned to df.
transactions_after_process(txs) == txs

\* CostAnalyzer.analyze_transactions: df = pd.DataFrame(transactions).
transactions_after_analysis(txs) == txs

\* categorize_transactions: result = df.copy(), and the two columns are
\* assigned to result.
frame_after_categorize(df) == df

\* calculate_summary_stats without the copy: the month column is assigned to
\* the DataFrame of the caller.
frame_after_summary_in_place(df) ==
  IF Len(df.rows) = 0 \/ "date" \notin df.columns THEN df
  ELSE [columns |-> df.columns \cup {"month"},
        rows |-> [i \in 1..Len(df.rows) |->
                    [month |-> Period(df.rows[i].date)] @@ df.rows[i]]]

\* calculate_summary_stats: df = transactions_df.copy(), and the converted
\* date and the month column are assigned to df.
frame_after_summary(df) == df

EmptyFrame == [columns |-> {}, rows |-> <<>>]

IdleRow == [description |-> "", merchant |-> None, amount |-> NoAmount]

\* One call of _categorize_transaction on the row.
CategorizeTransaction ==
  /\ category.status = "pending"
  /\ category' = categorize_transaction(category_rules, row)
  /\ UNCHANGED <<category_rules, row, transactions, processed, batch, analysis,
                 transactions_df, stats, recategorized, categorized_df,
                 reprocessed, raw_transactions, bank_type, crew, auth, now>>

InitCategorize ==
  /\ category_rules \in RuleLists
  /\ row \in Rows
  /\ category = Pending
  /\ transactions = <<>>
  /\ processed = Pending
  /\ batch = <<>>
  /\ analysis = Pending
  /\ transactions_df = EmptyFrame
  /\ stats = Pending
  /\ recategorized = Pending
  /\ categorized_df = Pending
  /\ reprocessed = Pending
  /\ raw_transactions = <<>>
  /\ bank_type = "wise"
  /\ crew = Pending
  /\ auth = Pending
  /\ now = 0

\* _categorize_transaction called once more on the same row, the processor
\* and the row being what the first call left.
CategorizeAgain ==
  /\ category.status = "ok"
  /\ recategorized.status = "pending"
  /\ recategorized' = categorize_transaction(category_rules, row)
  /\ UNCHANGED <<category_rules, row, category, transactions, processed, batch,
                 analysis, transactions_df, stats, categorized_df,
                 reprocessed, raw_transactions, bank_type, crew, auth, now>>

NextCategorize == CategorizeTransaction \/ CategorizeAgain

SpecCategorize == InitCategorize /\ [][NextCategorize]_vars

\* What the row's fields are once _categorize_transaction has read them.
RowDescription(r) == Lower(Str(r.description))
RowMerchant(r) == IF TruthyStr(r.merchant) THEN Lower(Str(r.merchant)) ELSE ""
RowAmount(r) == IF TruthyAmount(r.amount) THEN r.amount.val ELSE 0

\* A rule matches a row by keyword, merchant pattern or amount range.
RuleMatches(rule, r) ==
  \/ KeywordHit(rule, RowDescription(r))
  \/ MerchantHit(rule, RowMerchant(r))
  \/ AmountHit(rule, RowAmount(r))

\* C1: _categorize_transaction returns the name of the first rule, in list
\* order, that matches the row by keyword, merchant pattern or amount range,
\* and "Other" when no rule matches; a later rule never wins over an earlier
\* matching one.
C1_FirstMatchWins ==
  category.status = "ok" =>
    IF \E i \in 1..Len(category_rules) : RuleMatches(category_rules[i], row)
    THEN \E i \in 1..Len(category_rules) :
           /\ RuleMatches(category_rules[i], row)
           /\ \A j \in 1..(i - 1) : ~RuleMatches(category_rules[j], row)
           /\ category.value = category_rules[i].name
    ELSE category.value = "Other"

\* C1's case: two rules of different names both match the row, the first by
\* a later kind of condition (amount range) than the second (keyword), and
\* the first one's name is returned.
C1_Witness ==
  /\ category.status = "ok"
  /\ Len(category_rules) = 2
  /\ category_rules[1].name # category_rules[2].name
  /\ AmountHit(category_rules[1], RowAmount(row))
  /\ ~KeywordHit(category_rules[1], RowDescription(row))
  /\ KeywordHit(category_rules[2], RowDescription(row))
  /\ category.value = category_rules[1].name

\* C9 as claimed: the amount-range condition of a rule matches iff both bounds
\* are set and the absolute value of the amount lies in [min_amount,
\* max_amount]; stated on a rule list of one rule that has no keyword and no
\* merchant pattern, so that the range alone decides the category.
C9_AbsoluteAmountInRange ==
  ( /\ category.status = "ok"
    /\ Len(category_rules) = 1
    /\ Len(category_rules[1].keywords) = 0
    /\ Len(category_rules[1].merchant_patterns) = 0 )
  => ( category.value = category_rules[1].name
       <=> /\ category_rules[1].min_amount # NoBound
           /\ category_rules[1].max_amount # NoBound
           /\ category_rules[1].min_amount[1] <= Abs(RowAmount(row))
           /\ Abs(RowAmount(row)) <= category_rules[1].max_amount[1] )

(***************************************************************************)
(* The enrichment pass: BankingTools hands a batch to                      *)
(* TransactionProcessor.process_transactions and its result to             *)
(* CostAnalyzer.analyze_transactions.                                      *)
(***************************************************************************)

\* The longest batch handed to process_transactions.
MaxBatch == 2

TxDescriptions == {"Netflix", "Monthly bill", "Coffee"}
TxAmounts == {Num(-50), Num(5), Num(50), Num(2000), BadAmount}
TxDates == {Date(2024, 1, 15), Date(2024, 2, 20), BadDate}

\* The records the normalizer hands over: no is_recurring key yet.
Txs == [description : TxDescriptions, merchant : {None}, amount : TxAmounts,
        date : TxDates, is_recurring : {Absent}]

\* TransactionProcessor.process_transactions on the batch.
ProcessTransactions ==
  /\ processed.status = "pending"
  /\ processed' = process_transactions(category_rules, transactions)
  /\ transactions' = transactions_after_process(transactions)
  /\ UNCHANGED <<category_rules, row, category, batch, analysis,
                 transactions_df, stats, recategorized, categorized_df,
                 reprocessed, raw_transactions, bank_type, crew, auth, now>>

\* BankingTools.analyze_costs on the processed records.
AnalyzeProcessed ==
  /\ processed.status = "ok"
  /\ analysis.status = "pending"
  /\ batch' = processed.records
  /\ analysis' = analyze_transactions(processed.records)
  /\ UNCHANGED <<category_rules, row, category, transactions, processed,
                 transactions_df, stats, recategorized, categorized_df,
                 reprocessed, raw_transactions, bank_type, crew, auth, now>>

\* TransactionProcessor.process_transactions on the records it returned.
ProcessAgain ==
  /\ processed.status = "ok"
  /\ reprocessed.status = "pending"
  /\ reprocessed' = process_transactions(category_rules, processed.records)
  /\ UNCHANGED <<category_rules, row, category, transactions, processed, batch,
                 analysis, transactions_df, stats, recategorized, categorized_df,
                 raw_transactions, bank_type, crew, auth, now>>

Init ==
  /\ category_rules = DefaultRules
  /\ row = IdleRow
  /\ category = Pending
  /\ transactions \in SeqsUpTo(Txs, MaxBatch)
  /\ processed = Pending
  /\ batch = <<>>
  /\ analysis = Pending
  /\ transactions_df = EmptyFrame
  /\ stats = Pending
  /\ recategorized = Pending
  /\ categorized_df = Pending
  /\ reprocessed = Pending
  /\ raw_transactions = <<>>
  /\ bank_type = "wise"
  /\ crew = Pending
  /\ auth = Pending
  /\ now = 0

Next == ProcessTransactions \/ AnalyzeProcessed \/ ProcessAgain

Spec == Init /\ [][Next]_vars

\* The elements of a list, as a set.
Elems(xs) == { xs[i] : i \in 1..Len(xs) }

\* The tags C5 names for an enriched record.
ClaimedTags(r) ==
  (IF r.amount.val > 1000 THEN {"high_value"} ELSE {})
  \cup (IF r.amount.val < 10 THEN {"low_value"} ELSE {})
  \cup (IF r.is_recurring = Present(TRUE) THEN {"recurring"} ELSE {})
  \cup (IF r.category # "Other" THEN {Lower(r.category)} ELSE {})

\* C5 as claimed: after process_transactions, the tags of each record are
\* "high_value" iff amount > 1000, "low_value" iff amount < 10, "recurring"
\* iff the record's is_recurring is true, the lower-cased category iff the
\* category is not "Other", and nothing else.
C5_TagsAsClaimed ==
  processed.status = "ok" =>
    \A i \in 1..Len(processed.records) :
      Elems(processed.records[i].tags) = ClaimedTags(processed.records[i])

\* A record of the input batch whose date or amount cannot be parsed.
Unparseable(t) == t.date.kind = "str" \/ t.amount.kind = "str"

\* C8 as claimed: a batch with one unparseable record among parseable ones
\* is still processed: the call returns, and the result holds the enriched
\* record of every parseable record.
C8_BadRecordIsSkipped ==
  ( /\ processed.status # "pending"
    /\ Cardinality({ i \in 1..Len(transactions) : Unparseable(transactions[i]) }) = 1
    /\ \E i \in 1..Len(transactions) : ~Unparseable(transactions[i]) )
  => /\ processed.status = "ok"
     /\ \A i \in 1..Len(transactions) :
          ~Unparseable(transactions[i]) =>
            \E k \in 1..Len(processed.records) :
              /\ processed.records[k].description = transactions[i].description
              /\ processed.records[k].amount = transactions[i].amount
              /\ processed.records[k].date = transactions[i].date

(***************************************************************************)
(* The Insight Detector called on a batch of enriched records.             *)
(***************************************************************************)

\* The longest batch handed to analyze_transactions directly.
MaxInsightBatch == 3

\* Amounts are in cents here: 29.99 is 2999.
InsightRows ==
  [description : {"Monthly Gym Membership", "Netflix"},
   amount : {Num(2999), Num(1499), Num(-500)},
   category : {"Subscriptions", "Other"},
   date : {Date(2024, 1, 15)}]

\* CostAnalyzer.analyze_transactions on the batch.
AnalyzeTransactions ==
  /\ analysis.status = "pending"
  /\ analysis' = analyze_transactions(batch)
  /\ batch' = transactions_after_analysis(batch)
  /\ UNCHANGED <<category_rules, row, category, transactions, processed,
                 transactions_df, stats, recategorized, categorized_df,
                 reprocessed, raw_transactions, bank_type, crew, auth, now>>

InitInsights ==
  /\ category_rules = DefaultRules
  /\ row = IdleRow
  /\ category = Pending
  /\ transactions = <<>>
  /\ processed = Pending
  /\ batch \in SeqsUpTo(InsightRows, MaxInsightBatch)
  /\ analysis = Pending
  /\ transactions_df = EmptyFrame
  /\ stats = Pending
  /\ recategorized = Pending
  /\ categorized_df = Pending
  /\ reprocessed = Pending
  /\ raw_transactions = <<>>
  /\ bank_type = "wise"
  /\ crew = Pending
  /\ auth = Pending
  /\ now = 0

NextInsights == AnalyzeTransactions

SpecInsights == InitInsights /\ [][NextInsights]_vars

\* The insights of one type in the returned savings_opportunities.
InsightsOfType(type) ==
  { i \in 1..Len(analysis.savings_opportunities) :
      analysis.savings_opportunities[i].type = type }

\* The rows of the batch that are subscriptions and share description and
\* amount with another subscription row.
DuplicatedSubscriptions ==
  { i \in 1..Len(batch) :
      /\ batch[i].category = "Subscriptions"
      /\ \E j \in 1..Len(batch) :
           /\ j # i
           /\ batch[j].category = "Subscriptions"
           /\ batch[j].description = batch[i].description
           /\ batch[j].amount = batch[i].amount }

RECURSIVE SumAmountsAt(_, _)
\* The sum of the amounts of the rows at the indices I.
SumAmountsAt(rows, I) ==
  IF I = {} THEN 0
  ELSE LET i == CHOOSE x \in I : TRUE
       IN  rows[i].amount.val + SumAmountsAt(rows, I \ {i})

\* C3 as claimed: with a group of two or more subscriptions of identical
\* description and amount, the duplicate_subscriptions insight has priority
\* "high" and an impact equal to the sum of the amounts of all transactions
\* of the flagged groups (amount times count).
C3_ImpactSumsAllDuplicates ==
  (analysis.status = "ok" /\ DuplicatedSubscriptions # {}) =>
    \E k \in InsightsOfType("duplicate_subscriptions") :
      /\ analysis.savings_opportunities[k].priority = "high"
      /\ analysis.savings_opportunities[k].impact
           = Whole(SumAmountsAt(batch, DuplicatedSubscriptions))

C6_EmptyBatchReturnsEmpty ==
  (analysis.status # "pending" /\ batch = <<>>) =>
    /\ analysis.status = "ok"
    /\ analysis.savings_opportunities = <<>>
    /\ analysis.insights = <<>>

(***************************************************************************)
(* The Insight Detector on batches long enough for the high-fee cut-off.   *)
(***************************************************************************)

\* The longest batch handed to the high-fee selection.
MaxFeeBatch == 11

\* A row of the high-fee batches.
FeeRow(a) ==
  [description |-> "Transfer", amount |-> Num(a), category |-> "Other",
   date |-> Date(2024, 1, 15)]

\* The batches: n amounts that step through the residues of a modulus from
\* a start, lowered by an offset: all distinct or with repeats, all
\* negative or of both signs, ascending, descending or neither.
FeeBatches ==
  { [i \in 1..n |-> FeeRow(((start + i * stride) % modulus) - offset)] :
      n \in 0..MaxFeeBatch, start \in 0..2, stride \in {1, 5, 12},
      modulus \in {3, 13}, offset \in {2, 6, 14} }

InitFees ==
  /\ category_rules = DefaultRules
  /\ row = IdleRow
  /\ category = Pending
  /\ transactions = <<>>
  /\ processed = Pending
  /\ batch \in FeeBatches
  /\ analysis = Pending
  /\ transactions_df = EmptyFrame
  /\ stats = Pending
  /\ recategorized = Pending
  /\ categorized_df = Pending
  /\ reprocessed = Pending
  /\ raw_transactions = <<>>
  /\ bank_type = "wise"
  /\ crew = Pending
  /\ auth = Pending
  /\ now = 0

SpecFees == InitFees /\ [][NextInsights]_vars

\* The rows of the batch with a negative amount.
Expenses == { i \in 1..Len(batch) : batch[i].amount.val < 0 }

\* C10: the high_fees insight is produced iff the batch has a row of
\* negative amount; there is one, of priority "medium", and its impact is
\* the absolute value of the sum of min(10, n) of the n negative amounts,
\* none of which is greater than a negative amount left out.
C10_HighFees ==
  analysis.status = "ok" =>
    /\ InsightsOfType("high_fees") # {} <=> Expenses # {}
    /\ Expenses # {} =>
         /\ Cardinality(InsightsOfType("high_fees")) = 1
         /\ \A k \in InsightsOfType("high_fees") :
              /\ analysis.savings_opportunities[k].priority = "medium"
              /\ \E S \in SUBSET Expenses :
                   /\ Cardinality(S) = Min(10, Cardinality(Expenses))
                   /\ \A i \in S : \A j \in Expenses \ S :
                        batch[i].amount.val <= batch[j].amount.val
                   /\ analysis.savings_opportunities[k].impact
                        = Whole(Abs(SumAmountsAt(batch, S)))

\* C10's case: eleven expenses of distinct amounts, not in order, and the
\* impact leaves out exactly the least negative one.
C10_Witness ==
  /\ analysis.status = "ok"
  /\ Len(batch) = 11
  /\ Cardinality(Expenses) = 11
  /\ \A i, j \in 1..Len(batch) : i # j => batch[i].amount # batch[j].amount
  /\ \E i \in 1..10 : batch[i].amount.val < batch[i + 1].amount.val
  /\ \E i \in 1..10 : batch[i].amount.val > batch[i + 1].amount.val
  /\ \E m \in 1..Len(batch) :
       /\ \A j \in 1..Len(batch) : batch[j].amount.val <= batch[m].amount.val
       /\ \E k \in InsightsOfType("high_fees") :
            analysis.savings_opportunities[k].impact
              = Whole(Abs(SumAmountsAt(batch, (1..Len(batch)) \ {m})))

(***************************************************************************)
(* The Aggregation Engine called on a DataFrame.                           *)
(***************************************************************************)

\* The most rows of a DataFrame handed to calculate_summary_stats.
MaxFrame == 3

FrameRows ==
  [amount : {Num(-300), Num(-100), Num(0), Num(200)},
   date : {Date(2024, 1, 15), Date(2024, 2, 20)},
   custom_category : {"food", "income"}]

\* The DataFrames: what categorize_transactions returns (every column), the
\* same without one or both optional columns, and the empty DataFrame.
Frames ==
  { [columns |-> c, rows |-> r] :
      c \in SUBSET {"date", "custom_category"},
      r \in SeqsUpTo(FrameRows, MaxFrame) \ {<<>>} }
  \cup {EmptyFrame}

\* calculate_summary_stats on the DataFrame.
CalculateSummaryStats ==
  /\ stats.status = "pending"
  /\ stats' = calculate_summary_stats(transactions_df)
  /\ transactions_df' = frame_after_summary(transactions_df)
  /\ UNCHANGED <<category_rules, row, category, transactions, processed, batch,
                 analysis, recategorized, categorized_df,
                 reprocessed, raw_transactions, bank_type, crew, auth, now>>

InitSummary ==
  /\ category_rules = DefaultRules
  /\ row = IdleRow
  /\ category = Pending
  /\ transactions = <<>>
  /\ processed = Pending
  /\ batch = <<>>
  /\ analysis = Pending
  /\ transactions_df \in Frames
  /\ stats = Pending
  /\ recategorized = Pending
  /\ categorized_df = Pending
  /\ reprocessed = Pending
  /\ raw_transactions = <<>>
  /\ bank_type = "wise"
  /\ crew = Pending
  /\ auth = Pending
  /\ now = 0

NextSummary == CalculateSummaryStats

SpecSummary == InitSummary /\ [][NextSummary]_vars

\* The rows of the DataFrame with a non-negative, and with a negative, amount.
IncomeRows == { i \in 1..Len(transactions_df.rows) : transactions_df.rows[i].amount.val >= 0 }
ExpenseRows == { i \in 1..Len(transactions_df.rows) : transactions_df.rows[i].amount.val < 0 }

\* C2: for a non-empty batch, total_income is the sum of the amounts >= 0,
\* total_expenses the absolute value of the sum of the amounts < 0, and
\* net_cashflow is total_income - total_expenses.
C2_Totals ==
  (stats.status # "pending" /\ Len(transactions_df.rows) > 0) =>
    /\ stats.status = "ok"
    /\ stats.total_income = SumAmountsAt(transactions_df.rows, IncomeRows)
    /\ stats.total_expenses = Abs(SumAmountsAt(transactions_df.rows, ExpenseRows))
    /\ stats.net_cashflow = stats.total_income - stats.total_expenses

\* C2's case: a batch of both signs whose expenses outweigh its income.
C2_Witness ==
  /\ stats.status = "ok"
  /\ Cardinality(ExpenseRows) >= 2
  /\ \E i \in IncomeRows : transactions_df.rows[i].amount.val > 0
  /\ stats.total_expenses > 0
  /\ stats.net_cashflow < 0

\* C7: for an empty batch calculate_summary_stats returns, with
\* total_income, total_expenses, net_cashflow and avg_daily_expense zero and
\* the two top-category lists and monthly_summary empty.
C7_EmptyBatchSummary ==
  (stats.status # "pending" /\ Len(transactions_df.rows) = 0) =>
    /\ stats.status = "ok"
    /\ stats.total_income = 0
    /\ stats.total_expenses = 0
    /\ stats.net_cashflow = 0
    /\ stats.avg_daily_expense.num = 0
    /\ Len(stats.top_expense_categories) = 0
    /\ Len(stats.top_income_categories) = 0
    /\ Len(stats.monthly_summary) = 0

\* C7's case: calculate_summary_stats has returned for the empty DataFrame.
C7_Witness ==
  /\ stats.status = "ok"
  /\ transactions_df = EmptyFrame

(***************************************************************************)
(* The Insight Detector on batches that span several calendar months.      *)
(***************************************************************************)

\* The longest batch handed to the trend analysis.
MaxTrendBatch == 3

\* Rows of three consecutive months across a change of year; 110 is 10%
\* above 100 and 111 is more.
TrendRows ==
  [description : {"Groceries"},
   amount : {Num(-111), Num(-110), Num(-100), Num(100)},
   category : {"Other"},
   date : {Date(2023, 12, 5), Date(2024, 1, 15), Date(2024, 2, 20)}]

InitTrend ==
  /\ category_rules = DefaultRules
  /\ row = IdleRow
  /\ category = Pending
  /\ transactions = <<>>
  /\ processed = Pending
  /\ batch \in SeqsUpTo(TrendRows, MaxTrendBatch)
  /\ analysis = Pending
  /\ transactions_df = EmptyFrame
  /\ stats = Pending
  /\ recategorized = Pending
  /\ categorized_df = Pending
  /\ reprocessed = Pending
  /\ raw_transactions = <<>>
  /\ bank_type = "wise"
  /\ crew = Pending
  /\ auth = Pending
  /\ now = 0

SpecTrend == InitTrend /\ [][NextInsights]_vars

\* The calendar months of the batch, as <<year, month>>.
BatchMonths == { <<batch[i].date.year, batch[i].date.month>> : i \in 1..Len(batch) }

\* ym1 is the same month as ym2 or an earlier one.
NotAfter(ym1, ym2) == ym1[1] < ym2[1] \/ (ym1[1] = ym2[1] /\ ym1[2] <= ym2[2])

\* The sum of the amounts of the batch's rows of the month ym.
MonthTotal(ym) ==
  SumAmountsAt(batch, { i \in 1..Len(batch) :
                          <<batch[i].date.year, batch[i].date.month>> = ym })

\* The batch spans two months or more, its first month's total is not zero,
\* and (last - first) / first is more than 1/10.
SpendingIncreased ==
  /\ Cardinality(BatchMonths) >= 2
  /\ LET first == MonthTotal(CHOOSE a \in BatchMonths : \A b \in BatchMonths : NotAfter(a, b))
         last == MonthTotal(CHOOSE a \in BatchMonths : \A b \in BatchMonths : NotAfter(b, a))
     IN  /\ first # 0
         /\ (first > 0 => 10 * (last - first) > first)
         /\ (first < 0 => 10 * (last - first) < first)

\* C11 as claimed: analyze_transactions returns for every batch; the
\* spending_increase insight is produced iff the batch spans two calendar
\* months or more and the last month's total exceeds the first month's by
\* more than 10% of it, and its impact is that relative increase; with fewer
\* than two months, or a first month's total of zero, there is no such
\* insight and no error.
C11_SpendingIncrease ==
  analysis.status # "pending" =>
    /\ analysis.status = "ok"
    /\ InsightsOfType("spending_increase") # {} <=> SpendingIncreased
    /\ SpendingIncreased =>
         /\ Cardinality(InsightsOfType("spending_increase")) = 1
         /\ \A k \in InsightsOfType("spending_increase") :
              LET q == analysis.savings_opportunities[k].impact
                  first == MonthTotal(CHOOSE a \in BatchMonths : \A b \in BatchMonths : NotAfter(a, b))
                  last == MonthTotal(CHOOSE a \in BatchMonths : \A b \in BatchMonths : NotAfter(b, a))
              IN  q.num * first = q.den * (last - first)

\* The same statement for the batches that have a row.
C11_OnNonEmptyBatches == Len(batch) > 0 => C11_SpendingIncrease

(***************************************************************************)
(* The recurring costs and the insight list of a batch (SpecInsights).     *)
(***************************************************************************)

\* The rows of the batch with the description d and the amount a.
GroupRows(d, a) ==
  { i \in 1..Len(batch) : batch[i].description = d /\ batch[i].amount.val = a }

\* The (description, amount) pairs that two rows or more of the batch have.
RepeatedGroups ==
  { <<batch[i].description, batch[i].amount.val>> :
      i \in { k \in 1..Len(batch) :
                Cardinality(GroupRows(batch[k].description, batch[k].amount.val)) > 1 } }

ReturnedInsights == analysis.savings_opportunities \o analysis.insights

\* The types of the three signals that _find_savings_opportunities reports.
SavingsTypes == {"duplicate_subscriptions", "high_fees", "spending_increase"}

\* How many of the returned insights have a type in T.
InsightCount(T) ==
  Cardinality({ k \in 1..Len(ReturnedInsights) : ReturnedInsights[k].type \in T })

\* The returned insights that are of none of the three types above.
OtherInsightCount ==
  Cardinality({ k \in 1..Len(ReturnedInsights) : ReturnedInsights[k].type \notin SavingsTypes })

\* C13 as claimed: each detected signal of the four types (duplicate
\* subscriptions, high fees, spending trend, recurring-charge clusters) is
\* exactly one CostInsight among those returned, an undetected one is none,
\* and a batch without any signal has an empty insight list.
C13_OneInsightPerSignal ==
  analysis.status = "ok" =>
    /\ InsightCount({"duplicate_subscriptions"}) = (IF DuplicatedSubscriptions # {} THEN 1 ELSE 0)
    /\ InsightCount({"high_fees"}) = (IF Expenses # {} THEN 1 ELSE 0)
    /\ InsightCount({"spending_increase"}) = (IF SpendingIncreased THEN 1 ELSE 0)
    /\ OtherInsightCount = (IF RepeatedGroups # {} THEN 1 ELSE 0)
    /\ (DuplicatedSubscriptions = {} /\ Expenses = {} /\ ~SpendingIncreased
          /\ RepeatedGroups = {}) => ReturnedInsights = <<>>

(***************************************************************************)
(* One category per row, and malformed merchant patterns (SpecCategorize). *)
(***************************************************************************)

\* The names of the rules of the list.
RuleNames == { category_rules[i].name : i \in 1..Len(category_rules) }

\* Once a category is returned it is one value: the name of a rule that
\* matches the row, or "Other" when no rule matches; a second call returns
\* the same.
OneCategory ==
  category.status = "ok" =>
    /\ category.value \in RuleNames \cup {"Other"}
    /\ (\E i \in 1..Len(category_rules) : RuleMatches(category_rules[i], row))
         => \E i \in 1..Len(category_rules) :
              /\ RuleMatches(category_rules[i], row)
              /\ category.value = category_rules[i].name
    /\ (\A i \in 1..Len(category_rules) : ~RuleMatches(category_rules[i], row))
         => category.value = "Other"
    /\ recategorized.status # "pending" => recategorized = category

C20_NoPatternErrorWhileCategorizing == category.status # "re.error"

(***************************************************************************)
(* categorize_transactions called on a DataFrame of raw transactions.      *)
(***************************************************************************)

\* The most rows of a DataFrame handed to categorize_transactions.
MaxRawFrame == 1

\* Raw rows: descriptions with keywords of two categories, of one, with a
\* keyword inside a longer word, with none, and None; a provider category
\* that is set, empty or None.
RawRows ==
  [description : {"Uber to Food Market", "Gas Station Shop", "NETFLIX.COM",
                  "Business Class", "Salary deposit", "Sent to Bob (rent)",
                  "Payment", None},
   category : {"Bills", "", None},
   amount : {Num(-50), Num(0)},
   date : {Date(2024, 1, 15)}]

\* The DataFrames of raw rows, with and without a "category" column, and the
\* empty DataFrame.
RawFrames ==
  { [columns |-> c, rows |-> r] :
      c \in {{"description", "amount", "date", "category"}, {"description", "amount", "date"}},
      r \in SeqsUpTo(RawRows, MaxRawFrame) \ {<<>>} }
  \cup {EmptyFrame}

\* categorize_transactions on the DataFrame.
CategorizeTransactions ==
  /\ categorized_df = Pending
  /\ categorized_df' = categorize_transactions(transactions_df)
  /\ transactions_df' = frame_after_categorize(transactions_df)
  /\ UNCHANGED <<category_rules, row, category, transactions, processed, batch,
                 analysis, stats, recategorized,
                 reprocessed, raw_transactions, bank_type, crew, auth, now>>

InitCustom ==
  /\ category_rules = DefaultRules
  /\ row = IdleRow
  /\ category = Pending
  /\ transactions = <<>>
  /\ processed = Pending
  /\ batch = <<>>
  /\ analysis = Pending
  /\ transactions_df \in RawFrames
  /\ stats = Pending
  /\ recategorized = Pending
  /\ categorized_df = Pending
  /\ reprocessed = Pending
  /\ raw_transactions = <<>>
  /\ bank_type = "wise"
  /\ crew = Pending
  /\ auth = Pending
  /\ now = 0

NextCustom == CategorizeTransactions

SpecCustom == InitCustom /\ [][NextCustom]_vars

\* The entries of the keyword table with a keyword that occurs in the
\* lower-cased description of row i of the DataFrame.
KeywordCategories(i) ==
  { c \in 1..Len(CustomCategories) :
      \E k \in 1..Len(CustomCategories[c].keywords) :
        Contains(CustomCategories[c].keywords[k],
                 Lower(Str(transactions_df.rows[i].description))) }

\* The provider's category of row i, when the DataFrame has one that is not
\* empty.
HasProviderCategory(i) ==
  /\ "category" \in transactions_df.columns
  /\ transactions_df.rows[i].category # None
  /\ transactions_df.rows[i].category # ""

\* C15: custom_category is the first category of the keyword table with a
\* keyword that occurs in the lower-cased description; when no keyword
\* occurs it is the provider's category, and when that is empty or absent it
\* is "other".
C15_CustomCategory ==
  (categorized_df # Pending /\ Len(transactions_df.rows) > 0) =>
    /\ Len(categorized_df.rows) = Len(transactions_df.rows)
    /\ \A i \in 1..Len(transactions_df.rows) :
         LET custom == categorized_df.rows[i].custom_category
         IN  /\ KeywordCategories(i) # {} =>
                  \E c \in KeywordCategories(i) :
                    /\ \A d \in KeywordCategories(i) : c <= d
                    /\ custom = CustomCategories[c].name
             /\ (KeywordCategories(i) = {} /\ HasProviderCategory(i)) =>
                  custom = transactions_df.rows[i].category
             /\ (KeywordCategories(i) = {} /\ ~HasProviderCategory(i)) =>
                  custom = "other"

\* C15's case: a row has keywords of two categories and a provider
\* category, and gets the earlier of the two categories of the table, which
\* is neither the first entry of the table nor the provider's category.
C15_Witness ==
  /\ categorized_df # Pending
  /\ \E i \in 1..Len(transactions_df.rows) :
       /\ Cardinality(KeywordCategories(i)) >= 2
       /\ 1 \notin KeywordCategories(i)
       /\ HasProviderCategory(i)
       /\ categorized_df.rows[i].custom_category
            = CustomCategories[MinOf(KeywordCategories(i))].name

(***************************************************************************)
(* The monthly summary and the signs of the totals (SpecSummary).          *)
(***************************************************************************)

RECURSIVE SumField(_, _)
\* The sum of one field over the entries of a list of records.
SumField(entries, field) ==
  IF Len(entries) = 0 THEN 0
  ELSE entries[1][field] + SumField(Tail(entries), field)

\* C16: for a non-empty batch with dates, the incomes of the entries of
\* monthly_summary add up to total_income and their expenses to
\* total_expenses.
C16_MonthlySumsMatchTotals ==
  ( /\ stats.status = "ok"
    /\ Len(transactions_df.rows) > 0
    /\ "date" \in transactions_df.columns )
  => /\ SumField(stats.monthly_summary, "income") = stats.total_income
     /\ SumField(stats.monthly_summary, "expenses") = stats.total_expenses

\* C16's case: two months, each with an expense, and an income in one.
C16_Witness ==
  /\ stats.status = "ok"
  /\ Len(stats.monthly_summary) = 2
  /\ stats.monthly_summary[1].expenses > 0
  /\ stats.monthly_summary[2].expenses > 0
  /\ stats.total_income > 0
  /\ stats.total_expenses = stats.monthly_summary[1].expenses + stats.monthly_summary[2].expenses

\* C19: in every result of calculate_summary_stats, whatever the signs of
\* the amounts, total_income and total_expenses are not negative, and no
\* entry of monthly_summary has a negative income or negative expenses.
C19_NonNegativeTotals ==
  stats.status # "pending" =>
    /\ stats.status = "ok"
    /\ stats.total_income >= 0
    /\ stats.total_expenses >= 0
    /\ \A k \in 1..Len(stats.monthly_summary) :
         /\ stats.monthly_summary[k].income >= 0
         /\ stats.monthly_summary[k].expenses >= 0

\* C19's case: a batch of negative amounts only, in two months.
C19_Witness ==
  /\ stats.status = "ok"
  /\ Len(transactions_df.rows) >= 2
  /\ IncomeRows = {}
  /\ Len(stats.monthly_summary) = 2
  /\ stats.total_income = 0
  /\ stats.total_expenses > 0
  /\ \A k \in 1..2 : stats.monthly_summary[k].expenses > 0

(***************************************************************************)
(* The Aggregation Engine on batches of several months and years.          *)
(***************************************************************************)

\* The most rows of a DataFrame of the monthly batches.
MaxMonthlyFrame == 3

\* Rows of February of one year and of January and February of the next.
MonthlyRows ==
  [amount : {Num(-300), Num(-100), Num(200)},
   date : {Date(2023, 2, 10), Date(2024, 1, 15), Date(2024, 2, 20)},
   custom_category : {"food"}]

MonthlyFrames ==
  { [columns |-> {"date", "custom_category"}, rows |-> r] :
      r \in SeqsUpTo(MonthlyRows, MaxMonthlyFrame) }

InitMonthly ==
  /\ category_rules = DefaultRules
  /\ row = IdleRow
  /\ category = Pending
  /\ transactions = <<>>
  /\ processed = Pending
  /\ batch = <<>>
  /\ analysis = Pending
  /\ transactions_df \in MonthlyFrames
  /\ stats = Pending
  /\ recategorized = Pending
  /\ categorized_df = Pending
  /\ reprocessed = Pending
  /\ raw_transactions = <<>>
  /\ bank_type = "wise"
  /\ crew = Pending
  /\ auth = Pending
  /\ now = 0

SpecMonthly == InitMonthly /\ [][NextSummary]_vars

\* The calendar months of the DataFrame, as <<year, month>>.
FrameMonths ==
  { <<transactions_df.rows[i].date.year, transactions_df.rows[i].date.month>> :
      i \in 1..Len(transactions_df.rows) }

\* The rows of the DataFrame of the month ym.
RowsOfMonth(ym) ==
  { i \in 1..Len(transactions_df.rows) :
      <<transactions_df.rows[i].date.year, transactions_df.rows[i].date.month>> = ym }

\* C17: monthly_summary has exactly one entry for each calendar month (year
\* and month) of the batch; an entry's income is the sum of that month's
\* amounts >= 0, its expenses the absolute value of the sum of that month's
\* amounts < 0, its net the difference; the entries are in chronological
\* order, whatever the order of the rows.
C17_MonthlySummary ==
  (stats.status = "ok" /\ Len(transactions_df.rows) > 0) =>
    LET ms == stats.monthly_summary
    IN  /\ Len(ms) = Cardinality(FrameMonths)
        /\ \A ym \in FrameMonths :
             \E k \in 1..Len(ms) :
               /\ ms[k].month = ym[1] * 12 + ym[2]
               /\ ms[k].income = SumAmountsAt(transactions_df.rows, RowsOfMonth(ym) \cap IncomeRows)
               /\ ms[k].expenses
                    = Abs(SumAmountsAt(transactions_df.rows, RowsOfMonth(ym) \cap ExpenseRows))
               /\ ms[k].net = ms[k].income - ms[k].expenses
        /\ \A k \in 1..(Len(ms) - 1) : ms[k].month < ms[k + 1].month

\* C17's case: rows of the same month of two different years and of a month
\* between them, the latest first, give three entries.
C17_Witness ==
  /\ stats.status = "ok"
  /\ Len(transactions_df.rows) = 3
  /\ Len(stats.monthly_summary) = 3
  /\ transactions_df.rows[1].date = Date(2024, 2, 20)
  /\ transactions_df.rows[3].date = Date(2023, 2, 10)
  /\ stats.monthly_summary[1].expenses > 0
  /\ stats.monthly_summary[3].income > 0

(***************************************************************************)
(* The Aggregation Engine on batches of more categories than a top list    *)
(* keeps.                                                                  *)
(***************************************************************************)

\* The most rows of a DataFrame of the top-list batches.
MaxTopFrame == 7

\* How many of the custom categories the top-list batches use.
TopCategories == 7

\* The batches: row i has the category at a step through the first
\* categories and an amount at a step through a few magnitudes, all
\* negative, all positive, or alternating.
TopFrames ==
  { [columns |-> {"date", "custom_category"},
     rows |-> [i \in 1..n |->
                [amount |-> Num((IF sign = "expense" \/ (sign = "mixed" /\ i % 2 = 1)
                                 THEN -100 ELSE 100)
                                * (((astart + i * astride) % amod) + 1)),
                 date |-> Date(2024, 1, 15),
                 custom_category |->
                   CategoryKeys[((cstart + i * cstride) % TopCategories) + 1]]]] :
      n \in 0..MaxTopFrame, sign \in {"expense", "income", "mixed"},
      astart \in 0..1, astride \in 0..1, amod \in {1, 3},
      cstart \in 0..2, cstride \in {1, 3, 6} }

InitTop ==
  /\ category_rules = DefaultRules
  /\ row = IdleRow
  /\ category = Pending
  /\ transactions = <<>>
  /\ processed = Pending
  /\ batch = <<>>
  /\ analysis = Pending
  /\ transactions_df \in TopFrames
  /\ stats = Pending
  /\ recategorized = Pending
  /\ categorized_df = Pending
  /\ reprocessed = Pending
  /\ raw_transactions = <<>>
  /\ bank_type = "wise"
  /\ crew = Pending
  /\ auth = Pending
  /\ now = 0

SpecTop == InitTop /\ [][NextSummary]_vars

\* The rows among the indices I that have the category c.
RowsOfCategory(I, c) == { i \in I : transactions_df.rows[i].custom_category = c }

\* The categories of the rows at the indices I.
CategoriesOf(I) == { transactions_df.rows[i].custom_category : i \in I }

\* The absolute value of the sum of the amounts of category c among I.
CategoryTotal(I, c) == Abs(SumAmountsAt(transactions_df.rows, RowsOfCategory(I, c)))

\* The list top holds the categories of the rows I with the largest totals:
\* at most five, each with its total, in descending order of the totals,
\* and no category left out has a larger total than one that is kept.
IsTopList(top, I) ==
  /\ Len(top) = Min(5, Cardinality(CategoriesOf(I)))
  /\ \A k \in 1..Len(top) :
       /\ top[k].category \in CategoriesOf(I)
       /\ top[k].amount = CategoryTotal(I, top[k].category)
  /\ \A k, l \in 1..Len(top) : k # l => top[k].category # top[l].category
  /\ \A k \in 1..(Len(top) - 1) : top[k].amount >= top[k + 1].amount
  /\ \A c \in CategoriesOf(I) :
       (\A k \in 1..Len(top) : top[k].category # c)
         => \A k \in 1..Len(top) : CategoryTotal(I, c) <= top[k].amount

\* Among categories of equal totals the one seen first among the rows I is
\* ranked first, and is the one kept when the list is cut.
TiesInInputOrder(top, I) ==
  LET first_seen(c) == MinOf(RowsOfCategory(I, c))
  IN  /\ \A k, l \in 1..Len(top) :
           (k < l /\ top[k].amount = top[l].amount)
             => first_seen(top[k].category) < first_seen(top[l].category)
      /\ \A c \in CategoriesOf(I) :
           (\A k \in 1..Len(top) : top[k].category # c)
             => \A k \in 1..Len(top) :
                  CategoryTotal(I, c) = top[k].amount
                    => first_seen(top[k].category) < first_seen(c)

\* C18 as claimed: each top list holds at most five categories, those with
\* the largest absolute summed amount, in descending order of it; of two
\* categories with equal sums the one seen first in the batch is ranked
\* first, and is the one kept at the cut-off.
C18_TopCategoriesTiesInInputOrder ==
  (stats.status = "ok" /\ Len(transactions_df.rows) > 0) =>
    /\ IsTopList(stats.top_expense_categories, ExpenseRows)
    /\ IsTopList(stats.top_income_categories, IncomeRows)
    /\ TiesInInputOrder(stats.top_expense_categories, ExpenseRows)
    /\ TiesInInputOrder(stats.top_income_categories, IncomeRows)

\* The same statement without its rule for equal sums: each top list holds
\* at most five categories, those with the largest absolute summed amount,
\* in descending order of it.
C18_WithoutTieRule ==
  (stats.status = "ok" /\ Len(transactions_df.rows) > 0) =>
    /\ IsTopList(stats.top_expense_categories, ExpenseRows)
    /\ IsTopList(stats.top_income_categories, IncomeRows)

(***************************************************************************)
(* banking_tools.py: the normalizer BankingTools.process_transactions.     *)
(* A raw value is a record with a kind: a dict with its keys as fields, a  *)
(* string, a number (Num), a date (Date), null, or the mark of a key that  *)
(* the dict does not have.                                                 *)
(***************************************************************************)

Missing == [kind |-> "missing"]
Null == [kind |-> "none"]
RawStr(s) == [kind |-> "str", val |-> s]
EmptyDict == [kind |-> "dict"]

\* What an attribute lookup on a value that has no .get leaves in place of a
\* value.
AttributeError == [kind |-> "AttributeError"]

\* v.get(key, default): AttributeError when v is not a dict (None, a float).
Get(v, key, default) ==
  IF v.kind = "AttributeError" THEN v
  ELSE IF v.kind # "dict" THEN AttributeError
  ELSE IF key \notin DOMAIN v THEN default
  ELSE IF v[key].kind = "missing" THEN default
  ELSE v[key]

\* A raw value as a field of a formatted record holds it: a string or None,
\* an amount, a date.
AsText(v) == IF v.kind = "str" THEN v.val ELSE None
AsAmount(v) ==
  IF v.kind = "num" THEN v
  ELSE IF v.kind = "dict" THEN [kind |-> "dict", val |-> 0]
  ELSE NoAmount
AsDate(v) == IF v.kind \in {"date", "str"} THEN v ELSE NoDate

\* The values read for one formatted_tx, in the order of the dict display.
FormattedValues(tx, tag) ==
  IF tag = "wise"
  THEN <<Get(tx, "referenceNumber", Null),
         Get(tx, "date", Null),
         Get(Get(tx, "amount", EmptyDict), "value", Null),
         Get(Get(tx, "amount", EmptyDict), "currency", Null),
         Get(Get(tx, "details", EmptyDict), "description", Null),
         Get(Get(Get(tx, "details", EmptyDict), "merchant", EmptyDict), "name", Null)>>
  ELSE <<Get(tx, "id", Null),
         Get(tx, "created_at", Null),
         Get(tx, "amount", Null),
         Get(tx, "currency", Null),
         Get(tx, "description", Null),
         Get(Get(tx, "merchant", EmptyDict), "name", Null)>>

\* formatted_tx of one raw record, or the AttributeError of building it.
format_transaction(tx, tag) ==
  LET v == FormattedValues(tx, tag)
  IN  IF \E k \in 1..Len(v) : v[k].kind = "AttributeError"
      THEN [status |-> "AttributeError"]
      ELSE [status |-> "ok",
            value |-> [id |-> AsText(v[1]),
                       date |-> AsDate(v[2]),
                       amount |-> AsAmount(v[3]),
                       currency |-> AsText(v[4]),
                       description |-> AsText(v[5]),
                       merchant |-> AsText(v[6]),
                       source |-> IF tag = "wise" THEN "wise" ELSE "revolut"]]

\* BankingTools.process_transactions(transactions, bank_type): every raw
\* record is formatted, then TransactionProcessor.process_transactions is
\* called on the formatted records.
normalize_and_process(rules, txs, tag) ==
  IF \E i \in 1..Len(txs) : format_transaction(txs[i], tag).status # "ok"
  THEN [status |-> "AttributeError", records |-> <<>>]
  ELSE process_transactions(rules, [i \in 1..Len(txs) |-> format_transaction(txs[i], tag).value])

(***************************************************************************)
(* The normalizer called on raw records of both shapes, with any tag.      *)
(***************************************************************************)

\* The longest batch of raw records.
MaxRawBatch == 2

\* A Wise record: a nested amount, and details that hold the description
\* and the merchant.
WiseRecord(amount, details) ==
  [kind |-> "dict", referenceNumber |-> RawStr("TX123"), date |-> Date(2024, 2, 1),
   amount |-> amount, details |-> details]

WiseAmount(currency) == [kind |-> "dict", value |-> Num(100), currency |-> currency]

WiseDetails(description, merchant) ==
  [kind |-> "dict", description |-> description, merchant |-> merchant]

MerchantOf(name) == [kind |-> "dict", name |-> RawStr(name)]

\* A Revolut record: flat amount, currency and description.
RevolutRecord(currency, description, merchant) ==
  [kind |-> "dict", id |-> RawStr("REV123"), created_at |-> Date(2024, 2, 1),
   amount |-> Num(75), currency |-> currency, description |-> description,
   merchant |-> merchant]

\* Complete records of the two shapes, and records with one optional field
\* missing or null.
RawRecords == {
  WiseRecord(WiseAmount(RawStr("USD")),
             WiseDetails(RawStr("Netflix Subscription"), MerchantOf("Netflix"))),
  WiseRecord(WiseAmount(RawStr("USD")), WiseDetails(RawStr("Netflix Subscription"), Missing)),
  WiseRecord(WiseAmount(RawStr("USD")), WiseDetails(RawStr("Netflix Subscription"), Null)),
  WiseRecord(WiseAmount(RawStr("USD")), WiseDetails(Missing, MerchantOf("Netflix"))),
  WiseRecord(WiseAmount(Missing),
             WiseDetails(RawStr("Netflix Subscription"), MerchantOf("Netflix"))),
  WiseRecord(WiseAmount(RawStr("USD")), Missing),
  WiseRecord(WiseAmount(RawStr("USD")), Null),
  RevolutRecord(RawStr("USD"), RawStr("Coffee Shop"), MerchantOf("Starbucks")),
  RevolutRecord(RawStr("USD"), RawStr("Coffee Shop"), Missing),
  RevolutRecord(RawStr("USD"), RawStr("Coffee Shop"), Null),
  RevolutRecord(RawStr("USD"), Null, MerchantOf("Starbucks")),
  RevolutRecord(Missing, RawStr("Coffee Shop"), MerchantOf("Starbucks")) }

\* The two tags the normalizer names, and one it does not.
BankTypes == {"wise", "revolut", "monzo"}

\* BankingTools.process_transactions on the raw batch.
NormalizeAndProcess ==
  /\ processed.status = "pending"
  /\ processed' = normalize_and_process(category_rules, raw_transactions, bank_type)
  /\ UNCHANGED <<category_rules, row, category, transactions, batch, analysis,
                 transactions_df, stats, recategorized, categorized_df,
                 reprocessed, raw_transactions, bank_type, crew, auth, now>>

InitNormalize ==
  /\ category_rules = DefaultRules
  /\ row = IdleRow
  /\ category = Pending
  /\ transactions = <<>>
  /\ processed = Pending
  /\ batch = <<>>
  /\ analysis = Pending
  /\ transactions_df = EmptyFrame
  /\ stats = Pending
  /\ recategorized = Pending
  /\ categorized_df = Pending
  /\ reprocessed = Pending
  /\ raw_transactions \in SeqsUpTo(RawRecords, MaxRawBatch)
  /\ bank_type \in BankTypes
  /\ crew = Pending
  /\ auth = Pending
  /\ now = 0

NextNormalize == NormalizeAndProcess

SpecNormalize == InitNormalize /\ [][NextNormalize]_vars

\* The raw record has the shape of the provider: the amount and the date
\* where that provider puts them.
HasShape(tx, tag) ==
  IF tag = "wise"
  THEN "referenceNumber" \in DOMAIN tx /\ tx.amount.kind = "dict"
  ELSE "id" \in DOMAIN tx /\ tx.amount.kind = "num"

\* The merchant name, the description and the currency of a raw record of
\* the provider's shape, None where the field, or the object that holds it,
\* is missing or null.
NameIn(merchant) == IF merchant.kind = "dict" THEN merchant.name.val ELSE None

RawMerchant(tx, tag) ==
  IF tag = "wise"
  THEN (IF tx.details.kind = "dict" THEN NameIn(tx.details.merchant) ELSE None)
  ELSE NameIn(tx.merchant)

RawDescription(tx, tag) ==
  IF tag = "wise"
  THEN (IF tx.details.kind = "dict" /\ tx.details.description.kind = "str"
        THEN tx.details.description.val ELSE None)
  ELSE (IF tx.description.kind = "str" THEN tx.description.val ELSE None)

RawCurrency(tx, tag) ==
  LET c == IF tag = "wise" THEN tx.amount.currency ELSE tx.currency
  IN  IF c.kind = "str" THEN c.val ELSE None

\* C21 as claimed: normalizing raw records of the provider's shape in which
\* an optional field (merchant, details, description, currency) is missing
\* or null never raises, and the canonical field is then null.
C21_MissingOptionalNeverRaises ==
  ( /\ processed.status # "pending"
    /\ bank_type \in {"wise", "revolut"}
    /\ Len(raw_transactions) > 0
    /\ \A i \in 1..Len(raw_transactions) : HasShape(raw_transactions[i], bank_type) )
  => /\ processed.status = "ok"
     /\ Len(processed.records) = Len(raw_transactions)
     /\ \A i \in 1..Len(raw_transactions) :
          /\ processed.records[i].merchant = RawMerchant(raw_transactions[i], bank_type)
          /\ processed.records[i].description = RawDescription(raw_transactions[i], bank_type)
          /\ processed.records[i].currency = RawCurrency(raw_transactions[i], bank_type)

\* The enrichment fields of a returned record.
EnrichmentFields == {"category", "tags", "is_recurring", "month", "year", "day_of_week"}

\* C24 as claimed: for every batch of Wise-shaped and Revolut-shaped raw
\* records and either of the two provider tags, the normalizer returns one
\* record per raw record, in the order of the input, and each has category,
\* tags, is_recurring, month, year and day_of_week.
C24_OneEnrichedRecordPerInput ==
  (processed.status # "pending" /\ bank_type \in {"wise", "revolut"}) =>
    /\ processed.status = "ok"
    /\ Len(processed.records) = Len(raw_transactions)
    /\ \A i \in 1..Len(raw_transactions) :
         /\ EnrichmentFields \subseteq DOMAIN processed.records[i]
         /\ HasShape(raw_transactions[i], bank_type) =>
              processed.records[i].id
                = (IF bank_type = "wise" THEN raw_transactions[i].referenceNumber.val
                   ELSE raw_transactions[i].id.val)

\* C27 as claimed: every record the normalizer returns has the source that
\* is the tag it was called with, whatever the tag.
C27_SourceIsTheTag ==
  processed.status = "ok" =>
    \A i \in 1..Len(processed.records) : processed.records[i].source = bank_type

(***************************************************************************)
(* process_transactions on records that already carry the enrichment       *)
(* fields, and is_recurring as a function of the description.              *)
(***************************************************************************)

\* The fields C22 names.
AddedFields == {"month", "year", "day_of_week", "tags", "is_recurring"}

\* C22 as claimed: process_transactions on its own output leaves month,
\* year, day_of_week, tags and is_recurring of every record with the value
\* they had.
C22_EnrichmentNeverOverwritten ==
  reprocessed.status # "pending" =>
    /\ reprocessed.status = "ok"
    /\ Len(reprocessed.records) = Len(processed.records)
    /\ \A i \in 1..Len(processed.records) :
         \A f \in AddedFields : reprocessed.records[i][f] = processed.records[i][f]

\* The description contains one of the six indicators C26 lists, in any
\* case.
HasIndicator(description) ==
  \E w \in {"subscription", "monthly", "recurring", "payment", "bill", "auto-pay"} :
    Contains(w, Lower(description))

\* C26: is_recurring of a returned record is true iff its lower-cased
\* description contains one of "subscription", "monthly", "recurring",
\* "payment", "bill", "auto-pay", whatever the other records of the batch
\* are.
C26_RecurringFromOwnDescription ==
  processed.status = "ok" =>
    \A i \in 1..Len(processed.records) :
      processed.records[i].is_recurring
        = Present(HasIndicator(Str(transactions[i].description)))

\* A batch of two records is enriched: the first is recurring, the second is
\* not, and one description has an upper-case letter.
C26_Witness ==
  /\ processed.status = "ok"
  /\ Len(processed.records) = 2
  /\ processed.records[1].is_recurring = Present(TRUE)
  /\ processed.records[2].is_recurring = Present(FALSE)
  /\ \E i \in 1..2 : Str(transactions[i].description) # Lower(Str(transactions[i].description))

(***************************************************************************)
(* The four stages, each called once on an input of its own.               *)
(***************************************************************************)

\* Batches of one and of two records for process_transactions.
StageTransactions ==
  LET r == [description |-> "Monthly bill", merchant |-> None, amount |-> Num(-50),
            date |-> Date(2024, 1, 15), is_recurring |-> Absent]
      s == [description |-> "Coffee", merchant |-> None, amount |-> Num(5),
            date |-> Date(2024, 2, 20), is_recurring |-> Absent]
  IN  {<<r>>, <<s>>, <<r, s>>}

\* Batches of enriched records for analyze_transactions.
StageBatches ==
  LET r == [description |-> "Netflix", amount |-> Num(1499), category |-> "Subscriptions",
            date |-> Date(2024, 1, 15)]
      s == [description |-> "Coffee", amount |-> Num(-500), category |-> "Other",
            date |-> Date(2024, 2, 20)]
  IN  {<<r>>, <<r, r>>, <<r, s>>}

\* DataFrames with a date column, for categorize_transactions and
\* calculate_summary_stats, and the empty DataFrame.
StageFrames ==
  LET r == [description |-> "Uber to Food Market", category |-> "Bills",
            amount |-> Num(-50), date |-> Date(2024, 1, 15)]
      s == [description |-> "Salary deposit", category |-> "",
            amount |-> Num(0), date |-> Date(2024, 2, 20)]
      columns == {"description", "amount", "date", "category"}
  IN  {[columns |-> columns, rows |-> <<r>>],
       [columns |-> columns, rows |-> <<r, s>>],
       EmptyFrame}

InitStages ==
  /\ category_rules = DefaultRules
  /\ row = IdleRow
  /\ category = Pending
  /\ transactions \in StageTransactions
  /\ processed = Pending
  /\ batch \in StageBatches
  /\ analysis = Pending
  /\ transactions_df \in StageFrames
  /\ stats = Pending
  /\ recategorized = Pending
  /\ categorized_df = Pending
  /\ reprocessed = Pending
  /\ raw_transactions = <<>>
  /\ bank_type = "wise"
  /\ crew = Pending
  /\ auth = Pending
  /\ now = 0

NextStages ==
  \/ ProcessTransactions
  \/ AnalyzeTransactions
  \/ CategorizeTransactions
  \/ CalculateSummaryStats

SpecStages == InitStages /\ [][NextStages]_vars

MaxFetched == 3

\* The definitions of analyze_costs and generate_report in the body of class
\* BankingTools, in the order of the source: two coroutine functions, then
\* two functions of self alone that return a Tool.
BankingToolsDefs == <<
  [name |-> "analyze_costs", params |-> <<"self", "transactions">>, returns |-> "coroutine"],
  [name |-> "generate_report", params |-> <<"self", "analysis_data", "output_formats">>,
   returns |-> "coroutine"],
  [name |-> "analyze_costs", params |-> <<"self">>, returns |-> "Tool"],
  [name |-> "generate_report", params |-> <<"self">>, returns |-> "Tool"] >>

\* The attribute of the class: a later def of a name replaces the earlier.
Attribute(name) ==
  BankingToolsDefs[MaxOf({ i \in 1..Len(BankingToolsDefs) : BankingToolsDefs[i].name = name })]

\* await method(...) with that many positional arguments (self included)
\* and these keyword arguments: the arguments bind and the value can be
\* awaited.
Awaitable(method, positional, keywords) ==
  /\ positional <= Len(method.params)
  /\ \A k \in keywords : \E i \in 1..Len(method.params) : method.params[i] = k
  /\ method.returns = "coroutine"

\* The keys of the value of CostAnalyzer.analyze_transactions, the empty
\* "insights" list left out.
AnalysisKeys == {"summary", "recurring_costs", "spending_patterns", "savings_opportunities"}

\* An exception leaves the try block without the finally clause.
leave_without_finally(c, exception) ==
  [c EXCEPT !.pc = "done", !.status = "raised", !.exception = exception]

\* An exception leaves the try block of run: the finally clause is next.
leave_try(c, exception) == [c EXCEPT !.pc = "finally", !.exception = exception]

\* BankingTools._ensure_session
ensure_session(c) ==
  IF c.session = None THEN [c EXCEPT !.session = "ClientSession"] ELSE c

\* One iteration of the loop of run: get_transactions for the next bank.
\* The response is an error, or n transactions of the bank's shape; the
\* call raises for a bank type that is neither "wise" nor "revolut", for an
\* error and for no transactions (process_transactions on an empty list),
\* and the date_range is read before the call.
fetch_next_bank(c, response) ==
  IF ~c.date_range_complete THEN leave_try(c, "KeyError")
  ELSE IF Head(c.banks) \notin {"wise", "revolut"}
  THEN leave_try(ensure_session(c), "Exception")
  ELSE IF response.kind = "error" \/ response.n = 0
  THEN leave_try(ensure_session(c), "Exception")
  ELSE [ensure_session(c) EXCEPT !.banks = Tail(@),
                                 !.all_transactions = @ + response.n]

\* The rest of the try block: analyze_costs, generate_report and the return.
analyze_and_report(c) ==
  IF ~Awaitable(Attribute("analyze_costs"), 2, {}) THEN leave_try(c, "TypeError")
  ELSE IF c.all_transactions = 0 THEN leave_try(c, "KeyError")
  ELSE IF ~Awaitable(Attribute("generate_report"), 2, {"output_formats"})
  THEN leave_try(c, "TypeError")
  ELSE [c EXCEPT !.pc = "finally",
                 !.result = [analysis |-> AnalysisKeys,
                             reports |-> {"json", "pdf", "sheets"},
                             transaction_count |-> c.all_transactions]]

\* BankingTools.close, and the end of run.
close_and_finish(c) ==
  [c EXCEPT !.pc = "done",
            !.closed = TRUE,
            !.session = None,
            !.status = IF c.exception = None THEN "returned" ELSE "raised"]

FetchResponses ==
  {[kind |-> "error", n |-> 0]} \cup [kind : {"json"}, n : 0..MaxFetched]

FetchTransactions ==
  /\ crew.pc = "fetch"
  /\ Len(crew.banks) > 0
  /\ \E response \in FetchResponses : crew' = fetch_next_bank(crew, response)
  /\ UNCHANGED <<category_rules, row, category, transactions, processed, batch,
                 analysis, transactions_df, stats, recategorized, categorized_df,
                 reprocessed, raw_transactions, bank_type, auth, now>>

AnalyzeAndReport ==
  /\ crew.pc = "fetch"
  /\ Len(crew.banks) = 0
  /\ crew' = analyze_and_report(crew)
  /\ UNCHANGED <<category_rules, row, category, transactions, processed, batch,
                 analysis, transactions_df, stats, recategorized, categorized_df,
                 reprocessed, raw_transactions, bank_type, auth, now>>

Finally ==
  /\ crew.pc = "finally"
  /\ crew' = close_and_finish(crew)
  /\ UNCHANGED <<category_rules, row, category, transactions, processed, batch,
                 analysis, transactions_df, stats, recategorized, categorized_df,
                 reprocessed, raw_transactions, bank_type, auth, now>>

\* The banks of the config, in the order of the dict.
BankConfigs ==
  {<<>>, <<"wise">>, <<"revolut">>, <<"wise", "revolut">>, <<"revolut", "wise">>,
   <<"wise", "monzo">>, <<"wise", "revolut", "monzo">>}

InitRun ==
  /\ category_rules = DefaultRules
  /\ row = IdleRow
  /\ category = Pending
  /\ transactions = <<>>
  /\ processed = Pending
  /\ batch = <<>>
  /\ analysis = Pending
  /\ transactions_df = EmptyFrame
  /\ stats = Pending
  /\ recategorized = Pending
  /\ categorized_df = Pending
  /\ reprocessed = Pending
  /\ raw_transactions = <<>>
  /\ bank_type = "wise"
  /\ \E banks \in BankConfigs, complete \in BOOLEAN :
       crew = [status |-> "running", pc |-> "fetch", banks |-> banks,
               date_range_complete |-> complete, all_transactions |-> 0,
               session |-> None, closed |-> FALSE, exception |-> None,
               result |-> Pending]
  /\ auth = Pending
  /\ now = 0

NextRun == FetchTransactions \/ AnalyzeAndReport \/ Finally

SpecRun == InitRun /\ [][NextRun]_vars

\* C25 as claimed: when every bank fetch has succeeded, run returns a result
\* with the keys analysis, reports and transaction_count; transaction_count
\* is the number of transactions fetched and analysis has summary,
\* recurring_costs, spending_patterns and savings_opportunities.
C25_RunReturnsResult ==
  (crew.pc = "done" /\ Len(crew.banks) = 0) =>
    /\ crew.status = "returned"
    /\ crew.result # Pending
    /\ DOMAIN crew.result = {"analysis", "reports", "transaction_count"}
    /\ crew.result.transaction_count = crew.all_transactions
    /\ AnalysisKeys \subseteq crew.result.analysis

\* C28: when run has finished, by a return or by an exception of any step,
\* close has run and the session is None.
C28_SessionClosedWhenRunFinishes ==
  crew.pc = "done" => (crew.closed /\ crew.session = None)

\* run has finished with an exception after a fetch that had opened the
\* session and returned transactions.
C28_Witness ==
  /\ crew.pc = "done"
  /\ crew.status = "raised"
  /\ crew.all_transactions > 0
  /\ crew.closed
  /\ crew.session = None

(***************************************************************************)
(* auth/bank_auth_base.py, auth/wise_auth.py, auth/revolut_auth.py         *)
(* auth is one WiseAuth or RevolutAuth: its token and expiry, the method   *)
(* that was called last (op), the methods that call has called (calls)     *)
(* and what it returned or raised (result).  now is datetime.now(), in     *)
(* units of 30 minutes.                                                    *)
(***************************************************************************)

\* The last value of the clock.
MaxNow == 3

\* timedelta(hours=1) and timedelta(minutes=30), in units of 30 minutes.
WiseLifetime == 2
RevolutLifetime == 1

\* _token_expiry = None
NoExpiry == -1

\* The access tokens the server issues.
Tokens == {"token-1", "token-2"}

\* What one POST gives: status 200 and a JSON object with an access_token,
\* status 200 and a JSON object without that key, another status, or an
\* exception of the request.
Responses ==
  [kind : {"token"}, access_token : Tokens]
  \cup [kind : {"no_token", "rejected", "error"}, access_token : {None}]

Lifetime(kind) == IF kind = "wise" THEN WiseLifetime ELSE RevolutLifetime

\* is_token_valid on the token alone, whatever the expiry.
is_token_valid_without_expiry(a, t) ==
  ~(a._access_token = None \/ a._token_expiry = NoExpiry)

\* BankAuthBase.is_token_valid at time t
is_token_valid(a, t) ==
  IF a._access_token = None \/ a._token_expiry = NoExpiry THEN FALSE
  ELSE t < a._token_expiry

Called(a, name) == [a EXCEPT !.calls = Append(@, name)]
Return(a, value) == [a EXCEPT !.result = [status |-> "ok", value |-> value]]
Raise(a, exception) == [a EXCEPT !.result = [status |-> exception, value |-> None]]

\* self._access_token = data["access_token"]; self._token_expiry = now + lifetime
store_token(a, t, response) ==
  [a EXCEPT !._access_token = response.access_token,
            !._token_expiry = t + Lifetime(a.kind)]

\* WiseAuth.authenticate and RevolutAuth.authenticate, with the response of
\* the POST first in responses.
authenticate(a, t, responses) ==
  LET c == Called(a, "authenticate")
  IN  IF responses[1].kind = "token"
      THEN Return(store_token(c, t, responses[1]), responses[1].access_token)
      ELSE Raise(c, "AuthenticationError")

\* WiseAuth.refresh_token is authenticate.  RevolutAuth.refresh_token posts
\* to the refresh endpoint; on another status it returns authenticate(),
\* inside the try, so that a failure of that call is caught and authenticate
\* is called once more; on an exception it returns authenticate().
refresh_token(a, t, responses) ==
  LET c == Called(a, "refresh_token")
  IN  IF a.kind = "wise" THEN authenticate(c, t, responses)
      ELSE IF responses[1].kind = "token"
      THEN Return(store_token(c, t, responses[1]), responses[1].access_token)
      ELSE IF responses[1].kind = "rejected"
      THEN LET first == authenticate(c, t, Tail(responses))
           IN  IF first.result.status = "ok" THEN first
               ELSE authenticate(first, t, Tail(Tail(responses)))
      ELSE authenticate(c, t, Tail(responses))

\* BankAuthBase.ensure_valid_token
ensure_valid_token(a, t, responses) ==
  IF ~is_token_valid(a, t)
  THEN IF a._access_token # None
       THEN refresh_token(a, t, responses)
       ELSE authenticate(a, t, responses)
  ELSE Return(a, a._access_token)

\* revoke_token that clears the token when the POST has been made, and
\* leaves the expiry.
revoke_token_keeping_expiry(a, response) ==
  IF a._access_token = None THEN Return(a, TRUE)
  ELSE [Return(a, response.kind \in {"token", "no_token"}) EXCEPT !._access_token = None]

\* WiseAuth.revoke_token and RevolutAuth.revoke_token: True without a token;
\* else whether the status is 200, False on an exception, and the finally
\* clause clears token and expiry.
revoke_token(a, response) ==
  IF a._access_token = None THEN Return(a, TRUE)
  ELSE [Return(a, response.kind \in {"token", "no_token"})
          EXCEPT !._access_token = None, !._token_expiry = NoExpiry]

\* The start of a call of the method op.
Enter(op) == [auth EXCEPT !.op = op, !.calls = <<>>]

Authenticate ==
  /\ \E r \in Responses : auth' = authenticate(Enter("authenticate"), now, <<r>>)
  /\ UNCHANGED <<category_rules, row, category, transactions, processed, batch,
                 analysis, transactions_df, stats, recategorized, categorized_df,
                 reprocessed, raw_transactions, bank_type, crew, now>>

RefreshToken ==
  /\ \E r1, r2, r3 \in Responses :
       auth' = refresh_token(Enter("refresh_token"), now, <<r1, r2, r3>>)
  /\ UNCHANGED <<category_rules, row, category, transactions, processed, batch,
                 analysis, transactions_df, stats, recategorized, categorized_df,
                 reprocessed, raw_transactions, bank_type, crew, now>>

EnsureValidToken ==
  /\ \E r1, r2, r3 \in Responses :
       auth' = ensure_valid_token(Enter("ensure_valid_token"), now, <<r1, r2, r3>>)
  /\ UNCHANGED <<category_rules, row, category, transactions, processed, batch,
                 analysis, transactions_df, stats, recategorized, categorized_df,
                 reprocessed, raw_transactions, bank_type, crew, now>>

RevokeToken ==
  /\ \E r \in Responses : auth' = revoke_token(Enter("revoke_token"), r)
  /\ UNCHANGED <<category_rules, row, category, transactions, processed, batch,
                 analysis, transactions_df, stats, recategorized, categorized_df,
                 reprocessed, raw_transactions, bank_type, crew, now>>

\* Time passes between two calls.
Tick ==
  /\ now < MaxNow
  /\ now' = now + 1
  /\ UNCHANGED <<category_rules, row, category, transactions, processed, batch,
                 analysis, transactions_df, stats, recategorized, categorized_df,
                 reprocessed, raw_transactions, bank_type, crew, auth>>

InitAuth ==
  /\ category_rules = DefaultRules
  /\ row = IdleRow
  /\ category = Pending
  /\ transactions = <<>>
  /\ processed = Pending
  /\ batch = <<>>
  /\ analysis = Pending
  /\ transactions_df = EmptyFrame
  /\ stats = Pending
  /\ recategorized = Pending
  /\ categorized_df = Pending
  /\ reprocessed = Pending
  /\ raw_transactions = <<>>
  /\ bank_type = "wise"
  /\ crew = Pending
  /\ \E kind \in {"wise", "revolut"} :
       auth = [kind |-> kind, _access_token |-> None, _token_expiry |-> NoExpiry,
               op |-> "__init__", calls |-> <<>>,
               result |-> [status |-> "ok", value |-> None]]
  /\ now = 0

NextAuth == Authenticate \/ RefreshToken \/ EnsureValidToken \/ RevokeToken \/ Tick

SpecAuth == InitAuth /\ [][NextAuth]_vars

====
